---------------------------- MODULE Spec2Model ----------------------------
(***************************************************************************)
(* RTSP relay: the Registry (ConfigST), the ingest worker (RTSPWorkerLoop  *)
(* / RTSPWorker), the fan-out (cast), the codec readiness gate (coGe) and  *)
(* the RTSP server (RTSPServer).                                           *)
(*                                                                         *)
(* Thirteen specifications share the variables of the module:              *)
(*   Spec        the worker lifecycle: RunIFNotRun callers, serveStreams,  *)
(*               the worker loop, viewers attaching and detaching;         *)
(*   SpecCast    the fan-out: packetBuffer -> drain goroutine -> cast ->   *)
(*               viewer queues -> viewers;                                 *)
(*   SpecIngest  the ingest: upstream units -> packetBuffer, iterations    *)
(*               of RTSPWorker and the drain goroutines they start;        *)
(*   SpecGate    coGe polling against a concurrently updated codec list;   *)
(*   SpecRtsp    RegisterStream and the request dispatch of one RTSP       *)
(*               connection, over every method and path of the model;      *)
(*   SpecPlay    the viewers of one RTSP connection: PLAY, TEARDOWN, the   *)
(*               consumer goroutines, the session table and its sweep;     *)
(*   SpecWire    the requests and responses of two RTSP connections, for   *)
(*               each of the three versions of the server in the tree;     *)
(*   SpecPeer    the viewer goroutine of a WebRTC offer, from the answer   *)
(*               to its return;                                            *)
(*   SpecLoop    RTSPWorkerLoop with the status fields of its channel and  *)
(*               the packet goroutines its iterations start;               *)
(*   SpecReg     the registry under updateStreamsPeriodically and          *)
(*               SyncStream while workers fail and viewers come and go;    *)
(*   SpecStatus  the status handlers reading the registry;                 *)
(*   SpecLock    Config.mutex as taken by each goroutine of the program;   *)
(*   SpecOut     the pieces written to one RTSP connection.                *)
(***************************************************************************)
EXTENDS Integers, Sequences, FiniteSets, TLC

(***************************************************************************)
(* Bounds of the model.                                                    *)
(***************************************************************************)
\* worker goroutines ever started in one run
MaxWorkers == 2
\* viewers ever registered in one run (clAd calls)
MaxViewers == 1
\* WebRTC signalling requests in one run
MaxOffers == 2
\* viewers ever registered in one run of the fan-out specification
MaxCastViewers == 2
\* capacity of a viewer queue (the source's make(chan av.Packet, 100), scaled)
QueueCap == 2
\* units the upstream delivers in one run
MaxPackets == 3
\* capacity of a packetBuffer (the source's make(chan av.Packet, 1000), scaled)
BufCap == 1
\* iterations of RTSPWorker that get a connection in one run, and failed
\* iterations in one run of the worker loop specification
MaxIters == 2
\* requests read from the RTSP connection in one run
MaxRequests == 2

(***************************************************************************)
(* Channels.  "cam1" comes from the configuration file (loadConfig); "url" *)
(* is an ad-hoc channel that only HTTPAPIServerStreamWebRTC2 creates.      *)
(***************************************************************************)
ConfigUUID == "cam1"
AdhocURL == "url"
Channels == {ConfigUUID, AdhocURL}

\* av.CodecData as far as coGe looks at it: the type and the lengths of the
\* H264 parameter sets.
H264Ready == [Type |-> "H264", SPS |-> 1, PPS |-> 1]
H264Empty == [Type |-> "H264", SPS |-> 0, PPS |-> 0]
H264NoPPS == [Type |-> "H264", SPS |-> 1, PPS |-> 0]
AudioAAC == [Type |-> "AAC", SPS |-> 0, PPS |-> 0]

\* A nil []av.CodecData is the empty list: the source never stores a
\* non-nil empty list (RTSPWorker calls coAd only with CodecData != nil).
NilCodecs == << >>

\* The zero StreamST, as a map read of a missing key yields it (ok = FALSE
\* is the second result of the two-valued map read).
ZeroStream ==
    [ok |-> FALSE, OnDemand |-> FALSE, RunLock |-> FALSE,
     Codecs |-> NilCodecs, Cl |-> << >>]

\* StreamST literal of HTTPAPIServerStreamWebRTC2.
AdhocStream ==
    [ZeroStream EXCEPT !.ok = TRUE, !.OnDemand = TRUE]

\* An entry of the configuration file after loadConfig.
ConfigStream(onDemand) ==
    [ZeroStream EXCEPT !.ok = TRUE, !.OnDemand = onDemand]

\* no RTSP server in the picture
NoRtsp == [variant |-> "none"]
NoWire == [variant |-> "none"]
\* no worker loop followed, no viewer goroutine followed
NoLoop == [pc |-> "none"]
NoPeer == [pc |-> "none"]
\* no lock users followed, no status fields followed, no connection output followed
NoLocks == [pc |-> "none"]
NoReg == [pc |-> "none"]
NoOut == [pc |-> "none"]

VARIABLES
    Streams,    \* Config.Streams: channel -> StreamST
    workers,    \* the RTSPWorkerLoop goroutines started so far
    served,     \* serveStreams has run
    offers,     \* WebRTC signalling handlers and their viewer goroutines
    nextCid,    \* viewer ids handed out by pseudoUUID so far
    requested,  \* channels RunIFNotRun has been called for
    target,     \* the channel the clients of this run address
    mutex,      \* Config.mutex is held (by cast)
    drains,     \* the packetBuffer and the drain goroutine of every iteration
    ingest,     \* the ingest goroutine of the data path (RTSPWorkerLoop)
    produced,   \* units read from the upstream so far
    hist,       \* per viewer: units received, units cast, units dropped
    gate,       \* a coGe call in progress
    rtsp,       \* the RTSP server: its stream table and one connection
    wire,       \* the RTSP server: requests and responses as written
    loop,       \* the worker loop with the state it records on the channel
    peer,       \* the viewer goroutine of a WebRTC offer
    locks,      \* Config.mutex as an RWMutex, and the goroutines that use it
    reg,        \* the channels with their status fields, and Config.LastError
    out         \* the bytes written to one RTSP connection, by writer

\* the variables the lifecycle specification leaves alone
restVars == <<locks, reg, out>>
moreVars == <<wire, loop, peer, restVars>>
dataVars == <<mutex, drains, ingest, produced, hist, gate, rtsp, moreVars>>

vars == <<Streams, workers, served, offers, nextCid, requested, target, dataVars>>

(***************************************************************************)
(* ConfigST methods, as functions of the channel map.                      *)
(***************************************************************************)
\* (mutant of RunIFNotRunStarts: the run-lock is not tested)
RunIFNotRunStartsNoLock(S, uuid) ==
    S[uuid].ok /\ S[uuid].OnDemand

\* RunIFNotRun's test: the entry exists, is on-demand and its run-lock is clear.
RunIFNotRunStarts(S, uuid) ==
    S[uuid].ok /\ S[uuid].OnDemand /\ ~S[uuid].RunLock

RunIFNotRunMap(S, uuid) ==
    IF RunIFNotRunStarts(S, uuid) THEN [S EXCEPT ![uuid].RunLock = TRUE] ELSE S

RunUnlockMap(S, uuid) ==
    IF S[uuid].ok /\ S[uuid].OnDemand /\ S[uuid].RunLock
    THEN [S EXCEPT ![uuid].RunLock = FALSE]
    ELSE S

HasViewer(S, uuid) ==
    S[uuid].ok /\ DOMAIN S[uuid].Cl # {}

\* clAd: a fresh id and a fresh empty queue.
clAdMap(S, suuid, cuuid) ==
    [S EXCEPT ![suuid].Cl = (cuuid :> << >>) @@ @]

\* clDe: delete(Cl, cuuid); deleting a missing key changes nothing.
clDeMap(S, suuid, cuuid) ==
    [S EXCEPT ![suuid].Cl = [k \in DOMAIN @ \ {cuuid} |-> @[k]]]

\* coAd writes the entry back, which creates it when it was missing.
coAdMap(S, suuid, codecs) ==
    [S EXCEPT ![suuid].Codecs = codecs, ![suuid].ok = TRUE]

(***************************************************************************)
(* Worker goroutines of the lifecycle specification.  A worker is          *)
(* [ch, OnDemand, pc]: the channel and the OnDemand flag it was started    *)
(* with and its position in RTSPWorkerLoop:                                *)
(*   "dial"    from the start of an iteration to the return of rtspv2.Dial *)
(*   "stream"  in the select loop of RTSPWorker, the upstream is open      *)
(*   "check"   RTSPWorker has returned, before the loop's HasViewer test   *)
(*   "unlock"  in the deferred function, before RunUnlock                  *)
(*   "done"    the goroutine has ended                                     *)
(* The status fields the loop writes on the way (Status, IsRunning,        *)
(* LastError, ReconnectCount) are read by no decision of the lifecycle;    *)
(* the units it moves are the subject of SpecCast.                         *)
(***************************************************************************)
NewWorker(uuid, onDemand) ==
    [ch |-> uuid, OnDemand |-> onDemand, pc |-> "dial"]

Live(i) == workers[i].pc # "done"
LiveWorkers(uuid) == {i \in DOMAIN workers : workers[i].ch = uuid /\ Live(i)}

\* An upstream connection is open between a successful Dial and the
\* deferred RTSPClient.Close() of the iteration.
Connected(i) == workers[i].pc = "stream"
OpenConnections(uuid) == {i \in DOMAIN workers : workers[i].ch = uuid /\ Connected(i)}

\* The codec lists an upstream can announce (RTSPClient.CodecData).
UpstreamCodecs == {NilCodecs, <<H264Ready>>}

(***************************************************************************)
(* ConfigST.RunIFNotRun(uuid), one critical section: test, set, go.        *)
(***************************************************************************)
RunIFNotRun(uuid) ==
    /\ RunIFNotRunStarts(Streams, uuid) => Len(workers) < MaxWorkers
    /\ Streams' = RunIFNotRunMap(Streams, uuid)
    /\ workers' = IF RunIFNotRunStarts(Streams, uuid)
                  THEN Append(workers, NewWorker(uuid, Streams[uuid].OnDemand))
                  ELSE workers
    /\ requested' = requested \cup {uuid}

\* (mutant of serveStreamsStarts: every configured channel is started)
serveStreamsStartsAll(st) == TRUE

\* serveStreams: one worker for every configured channel that is not on-demand.
serveStreamsStarts(st) == ~st.OnDemand

serveStreams ==
    /\ ~served
    /\ served' = TRUE
    /\ workers' = IF serveStreamsStarts(Streams[ConfigUUID])
                  THEN Append(workers, NewWorker(ConfigUUID, Streams[ConfigUUID].OnDemand))
                  ELSE workers
    /\ UNCHANGED <<dataVars, Streams, offers, nextCid, requested, target>>

(***************************************************************************)
(* RTSP inbound server, for a registered channel.                          *)
(***************************************************************************)
\* handleDescribe: RunIFNotRun, then coGe (which only reads) and the reply.
handleDescribe ==
    /\ target = ConfigUUID
    /\ RunIFNotRun(ConfigUUID)
    /\ UNCHANGED <<dataVars, served, offers, nextCid, target>>

handleSetup ==
    /\ target = ConfigUUID
    /\ RunIFNotRun(ConfigUUID)
    /\ UNCHANGED <<dataVars, served, offers, nextCid, target>>

\* handlePlay: clAd and a streamToClient goroutine.  That goroutine ranges
\* over a queue nobody closes and its deferred clDe names an id that is not
\* the key clAd returned, so the entry stays.
handlePlay ==
    /\ target = ConfigUUID
    /\ nextCid < MaxViewers
    /\ nextCid' = nextCid + 1
    /\ Streams' = clAdMap(Streams, ConfigUUID, nextCid + 1)
    /\ UNCHANGED <<dataVars, workers, served, offers, requested, target>>

(***************************************************************************)
(* RTSPWorkerLoop.                                                         *)
(***************************************************************************)
SetWorker(i, w) == workers' = [workers EXCEPT ![i] = w]
At(i, pc) == i \in DOMAIN workers /\ workers[i].pc = pc
Goto(i, pc) == SetWorker(i, [workers[i] EXCEPT !.pc = pc])

\* stream.go 90-99: rtspv2.Dial fails (or times out after 5 s)
WorkerDialFail(i) ==
    /\ At(i, "dial")
    /\ Goto(i, "check")
    /\ UNCHANGED <<dataVars, Streams, served, offers, nextCid, requested, target>>

\* stream.go 90-104: Dial succeeds, coAd when CodecData != nil
WorkerDialOk(i) ==
    /\ At(i, "dial")
    /\ \E codecs \in UpstreamCodecs :
         Streams' = IF codecs # NilCodecs
                    THEN coAdMap(Streams, workers[i].ch, codecs)
                    ELSE Streams
    /\ Goto(i, "stream")
    /\ UNCHANGED <<dataVars, served, offers, nextCid, requested, target>>

\* stream.go 132-139: the clientTest timer; the timer is reset when the
\* channel is on-demand and has a viewer
WorkerClientTest(i) ==
    /\ At(i, "stream")
    /\ IF workers[i].OnDemand /\ ~HasViewer(Streams, workers[i].ch)
       THEN Goto(i, "check")
       ELSE UNCHANGED workers
    /\ UNCHANGED <<dataVars, Streams, served, offers, nextCid, requested, target>>

\* stream.go 141-148: the keyTest timer (no key frame for 20 s)
WorkerKeyTest(i) ==
    /\ At(i, "stream")
    /\ Goto(i, "check")
    /\ UNCHANGED <<dataVars, Streams, served, offers, nextCid, requested, target>>

\* stream.go 152-153: SignalCodecUpdate
WorkerSignalCodecUpdate(i) ==
    /\ At(i, "stream")
    /\ \E codecs \in UpstreamCodecs \ {NilCodecs} :
         Streams' = coAdMap(Streams, workers[i].ch, codecs)
    /\ UNCHANGED <<dataVars, workers, served, offers, nextCid, requested, target>>

\* stream.go 154-161: SignalStreamRTPStop
WorkerSignalRTPStop(i) ==
    /\ At(i, "stream")
    /\ Goto(i, "check")
    /\ UNCHANGED <<dataVars, Streams, served, offers, nextCid, requested, target>>

\* stream.go 70-74: the no-viewer check of the loop; return, or sleep 1 s and
\* start the next iteration
WorkerCheck(i) ==
    /\ At(i, "check")
    /\ IF workers[i].OnDemand /\ ~HasViewer(Streams, workers[i].ch)
       THEN Goto(i, "unlock")
       ELSE Goto(i, "dial")
    /\ UNCHANGED <<dataVars, Streams, served, offers, nextCid, requested, target>>

\* stream.go 28-38: the deferred function ends with Config.RunUnlock(name);
\* the goroutine ends
WorkerUnlock(i) ==
    /\ At(i, "unlock")
    /\ Streams' = RunUnlockMap(Streams, workers[i].ch)
    /\ Goto(i, "done")
    /\ UNCHANGED <<dataVars, served, offers, nextCid, requested, target>>

(***************************************************************************)
(* WebRTC signalling.  An offer is [kind, ch, pc, cid, fail, http, muxer]:  *)
(* kind "suuid" is HTTPAPIServerStreamWebRTC on the configured channel,    *)
(* kind "url" is HTTPAPIServerStreamWebRTC2 on the ad-hoc channel; fail is *)
(* the failure the handler returned on, http the status it wrote (0: it    *)
(* wrote no response), muxer whether webrtc.NewMuxer has been called.      *)
(***************************************************************************)
SetOffer(j, o) == offers' = [offers EXCEPT ![j] = o]
OfferAt(j, pc) == j \in DOMAIN offers /\ offers[j].pc = pc
OfferGoto(j, pc) == SetOffer(j, [offers[j] EXCEPT !.pc = pc])

NewOffer(kind, ch, pc) ==
    [kind |-> kind, ch |-> ch, pc |-> pc, cid |-> 0,
     fail |-> "", http |-> 0, muxer |-> FALSE]

\* What the handler writes before it returns on a failure: nothing in
\* HTTPAPIServerStreamWebRTC, c.JSON(500, ...) in HTTPAPIServerStreamWebRTC2
\* (when Config.LastError is nil the call panics and the Recovery handler of
\* gin.Default answers 500 as well).
ErrorStatus(kind) == IF kind = "url" THEN 500 ELSE 0

OfferFail(j, fail) ==
    SetOffer(j, [offers[j] EXCEPT !.pc = "done", !.fail = fail,
                                  !.http = ErrorStatus(offers[j].kind)])


\* a request arrives
HTTPAPIServerStreamWebRTC ==
    /\ Len(offers) < MaxOffers
    /\ offers' = Append(offers, NewOffer("suuid", target, "ext"))
    /\ UNCHANGED <<dataVars, Streams, workers, served, nextCid, requested, target>>

HTTPAPIServerStreamWebRTC2 ==
    /\ target = AdhocURL
    /\ Len(offers) < MaxOffers
    /\ offers' = Append(offers, NewOffer("url", AdhocURL, "lookup"))
    /\ UNCHANGED <<dataVars, Streams, workers, served, nextCid, requested, target>>

\* part_002 534-537: Config.ext(suuid)
OfferExt(j) ==
    /\ OfferAt(j, "ext")
    /\ IF Streams[offers[j].ch].ok
       THEN OfferGoto(j, "run")
       ELSE OfferFail(j, "notFound")
    /\ UNCHANGED <<dataVars, Streams, workers, served, nextCid, requested, target>>

\* part_002 640: _, ok := Config.Streams[url], read without the lock
OfferLookup(j) ==
    /\ OfferAt(j, "lookup")
    /\ IF Streams[offers[j].ch].ok THEN OfferGoto(j, "run") ELSE OfferGoto(j, "insert")
    /\ UNCHANGED <<dataVars, Streams, workers, served, nextCid, requested, target>>

\* part_002 641-645: Config.Streams[url] = StreamST{...}, written without the lock
OfferInsert(j) ==
    /\ OfferAt(j, "insert")
    /\ Streams' = [Streams EXCEPT ![offers[j].ch] = AdhocStream]
    /\ OfferGoto(j, "run")
    /\ UNCHANGED <<dataVars, workers, served, nextCid, requested, target>>

\* part_002 538 / 648: Config.RunIFNotRun
OfferRun(j) ==
    /\ OfferAt(j, "run")
    /\ RunIFNotRun(offers[j].ch)
    /\ OfferGoto(j, "codecs")
    /\ UNCHANGED <<dataVars, served, nextCid, target>>

\* part_002 539-543 / 650-655: coGe found no codecs, the handler returns
OfferNoCodecs(j) ==
    /\ OfferAt(j, "codecs")
    /\ Streams[offers[j].ch].Codecs = NilCodecs
    /\ OfferFail(j, "noCodecs")
    /\ UNCHANGED <<dataVars, Streams, workers, served, nextCid, requested, target>>

\* part_002 539, 548-554 / 650, 657-663: coGe returned a codec list,
\* webrtc.NewMuxer
OfferCodecs(j) ==
    /\ OfferAt(j, "codecs")
    /\ Streams[offers[j].ch].Codecs # NilCodecs
    /\ SetOffer(j, [offers[j] EXCEPT !.pc = "answer", !.muxer = TRUE])
    /\ UNCHANGED <<dataVars, Streams, workers, served, nextCid, requested, target>>

\* part_002 555-564 / 666-671: WriteHeader or the response write fails
OfferAnswerFail(j) ==
    /\ OfferAt(j, "answer")
    /\ OfferFail(j, "answer")
    /\ UNCHANGED <<dataVars, Streams, workers, served, nextCid, requested, target>>

\* part_002 565-566 / 696-697: the answer is out, the viewer goroutine calls clAd
OfferAttach(j) ==
    /\ OfferAt(j, "answer")
    /\ nextCid < MaxViewers
    /\ nextCid' = nextCid + 1
    /\ Streams' = clAdMap(Streams, offers[j].ch, nextCid + 1)
    /\ SetOffer(j, [offers[j] EXCEPT !.pc = "drain", !.cid = nextCid + 1,
                                     !.http = 200])
    /\ UNCHANGED <<dataVars, workers, served, requested, target>>

\* part_002 567, 595-597 / 698, 704-719: the noVideo timer fires or a write
\* fails; the deferred clDe removes the viewer
OfferDetach(j) ==
    /\ OfferAt(j, "drain")
    /\ Streams' = clDeMap(Streams, offers[j].ch, offers[j].cid)
    /\ OfferGoto(j, "done")
    /\ UNCHANGED <<dataVars, workers, served, nextCid, requested, target>>

(***************************************************************************)
(* The lifecycle specification.                                            *)
(***************************************************************************)
Init ==
    /\ target \in Channels
    /\ \E onDemand \in BOOLEAN :
         /\ target = AdhocURL => onDemand
         /\ Streams = [c \in Channels |->
                         IF c = ConfigUUID THEN ConfigStream(onDemand) ELSE ZeroStream]
    /\ workers = << >>
    /\ served = FALSE
    /\ offers = << >>
    /\ nextCid = 0
    /\ requested = {}
    /\ mutex = FALSE
    /\ drains = << >>
    /\ ingest = [pc |-> "idle"]
    /\ produced = 0
    /\ hist = << >>
    /\ gate = [pc |-> "idle"]
    /\ rtsp = NoRtsp
    /\ wire = NoWire
    /\ loop = NoLoop
    /\ peer = NoPeer
    /\ locks = NoLocks
    /\ reg = NoReg
    /\ out = NoOut

WorkerStep(i) ==
    \/ WorkerDialFail(i)
    \/ WorkerDialOk(i)
    \/ WorkerClientTest(i)
    \/ WorkerKeyTest(i)
    \/ WorkerSignalCodecUpdate(i)
    \/ WorkerSignalRTPStop(i)
    \/ WorkerCheck(i)
    \/ WorkerUnlock(i)

OfferStep(j) ==
    \/ OfferExt(j)
    \/ OfferLookup(j)
    \/ OfferInsert(j)
    \/ OfferRun(j)
    \/ OfferNoCodecs(j)
    \/ OfferCodecs(j)
    \/ OfferAnswerFail(j)
    \/ OfferAttach(j)
    \/ OfferDetach(j)

Next ==
    \/ serveStreams
    \/ handleDescribe
    \/ handleSetup
    \/ handlePlay
    \/ HTTPAPIServerStreamWebRTC
    \/ HTTPAPIServerStreamWebRTC2
    \/ \E i \in 1..MaxWorkers : WorkerStep(i)
    \/ \E j \in 1..MaxOffers : OfferStep(j)

Spec == Init /\ [][Next]_vars

(***************************************************************************)
(* Properties of the lifecycle specification.                              *)
(***************************************************************************)
WorkersOf(uuid) == {i \in DOMAIN workers : workers[i].ch = uuid}
Viewers(uuid) == DOMAIN Streams[uuid].Cl
OffersPastRun(uuid) ==
    {j \in DOMAIN offers : offers[j].ch = uuid
                           /\ offers[j].pc \in {"codecs", "answer", "drain", "done"}}

\* C1: in every reachable state every channel has at most one live
\* RTSPWorkerLoop and at most one open upstream connection.
C1_AtMostOneWorkerPerChannel ==
    \A c \in Channels :
        /\ Cardinality(LiveWorkers(c)) <= 1
        /\ Cardinality(OpenConnections(c)) <= 1

\* C2: RunIFNotRun tests and sets the run-lock in one critical section.  A
\* step starts at most one worker; a worker started by RunIFNotRun is started
\* from a state in which the channel is on-demand with its run-lock clear and
\* leaves the run-lock set; on the configured channel any number of calls keep
\* exactly one worker live while the run-lock is set and none while it is
\* clear; a channel that is not on-demand gets no worker from RunIFNotRun.
C2_Configured ==
    LET st == Streams[ConfigUUID] IN
    IF st.OnDemand
    THEN Cardinality(LiveWorkers(ConfigUUID)) = (IF st.RunLock THEN 1 ELSE 0)
    ELSE /\ ~st.RunLock
         /\ Cardinality(WorkersOf(ConfigUUID)) = (IF served THEN 1 ELSE 0)

C2_Step ==
    /\ Len(workers') <= Len(workers) + 1
    /\ (Len(workers') = Len(workers) + 1 /\ served' = served) =>
          LET c == workers'[Len(workers')].ch IN
          /\ Streams[c].ok /\ Streams[c].OnDemand /\ ~Streams[c].RunLock
          /\ Streams'[c].RunLock
          /\ workers'[Len(workers')].OnDemand

C2_RunIFNotRunStartsOnce == [](C2_Configured) /\ [][C2_Step]_vars

\* C2 witness: two WebRTC handlers have called RunIFNotRun for the configured
\* on-demand channel and one worker is live.
C2_Witness ==
    /\ Streams[ConfigUUID].OnDemand
    /\ Cardinality(OffersPastRun(ConfigUUID)) >= 2
    /\ Cardinality(LiveWorkers(ConfigUUID)) = 1
    /\ Len(workers) = 1

\* C3 as stated: an on-demand channel with an empty viewer set has no worker.
C3_NoViewerNoWorker ==
    \A c \in Channels :
        (Streams[c].ok /\ Streams[c].OnDemand /\ Viewers(c) = {})
            => LiveWorkers(c) = {}

\* C3 amended: an on-demand channel with an empty viewer set for which
\* RunIFNotRun has not been called (no DESCRIBE, SETUP or WebRTC request so far)
\* has no worker; start-up launches none.
C3_NoWorkerBeforeRequest ==
    \A c \in Channels :
        (Streams[c].ok /\ Streams[c].OnDemand /\ Viewers(c) = {} /\ c \notin requested)
            => WorkersOf(c) = {}

\* C3 witness: serveStreams has run on an on-demand configuration and the
\* channel, not yet requested, is idle.
C3_Witness ==
    /\ served
    /\ Streams[ConfigUUID].OnDemand
    /\ Viewers(ConfigUUID) = {}
    /\ ConfigUUID \notin requested
    /\ WorkersOf(ConfigUUID) = {}

\* C29: once RunIFNotRun has returned for a request on an on-demand channel
\* and the viewer of that request is attached, a worker of that channel is
\* running: the call joined a worker that keeps running or started one.
C29_AttachedViewerHasWorker ==
    \A j \in DOMAIN offers :
       (/\ offers[j].pc = "drain"
        /\ offers[j].kind = "suuid"
        /\ Streams[offers[j].ch].OnDemand)
          => LiveWorkers(offers[j].ch) # {}

(***************************************************************************)
(* The data path of the configured channel.  Units are numbered in the     *)
(* order the ingest loop read them from the upstream.  Every iteration of  *)
(* RTSPWorker makes a packetBuffer and starts a drain goroutine; a drain   *)
(* is [buf, pc, pck, todo, cur]: the contents of its packetBuffer and its  *)
(* position:                                                               *)
(*   "recv"    at the receive of "for pck := range packetBuffer"           *)
(*   "lock"    in cast, before element.mutex.Lock()                        *)
(*   "range"   in cast's loop over Cl, todo = the viewers not yet visited  *)
(*   "send"    at "v.c <- pck" for viewer cur, after the length test       *)
(* A viewer's queue is Streams[ConfigUUID].Cl[v]; hist[v] records what the *)
(* viewer has received from its queue (delivered), the units passed to     *)
(* cast while it was registered (cast) and those of them cast skipped for  *)
(* it (dropped).                                                           *)
\* C20: an offer for a channel that is not registered is answered 404 and an
\* offer whose codec wait ends without codecs is answered 500; on both paths
\* no viewer is registered and no muxer is created.
C20_SignalingErrorsAnswered ==
    \A j \in DOMAIN offers :
       /\ offers[j].fail = "notFound" =>
             offers[j].http = 404 /\ offers[j].cid = 0 /\ ~offers[j].muxer
       /\ offers[j].fail = "noCodecs" =>
             offers[j].http = 500 /\ offers[j].cid = 0 /\ ~offers[j].muxer

(***************************************************************************)
lifeVars == <<workers, served, offers, requested, target, rtsp, moreVars>>

Queue(v) == Streams[ConfigUUID].Cl[v]
SetQueue(v, q) == Streams' = [Streams EXCEPT ![ConfigUUID].Cl[v] = q]

NewDrain(buf) == [buf |-> buf, pc |-> "recv", pck |-> 0, todo |-> {}, cur |-> 0]
SetDrain(k, d) == drains' = [drains EXCEPT ![k] = d]
DrainAt(k, pc) == k \in DOMAIN drains /\ drains[k].pc = pc

NewHist == [delivered |-> << >>, cast |-> << >>, dropped |-> {}]

\* (mutant of castRoom: the length test lets a full queue through)
castRoomOffByOne(q) == Len(q) <= QueueCap

\* cast's test before the send: len(v.c) < cap(v.c)
castRoom(q) == Len(q) < QueueCap

\* the test has no else branch: a queue without room stays as it is
castFull(q, pck) == q

\* (mutant of castAfterFull: the range ends at the first queue without room)
castAfterFullStop(todo, v) == {}

\* after a queue without room the range goes on with the other viewers
castAfterFull(todo, v) == todo \ {v}

\* stream.go 116: the drain goroutine receives the oldest buffered unit
DrainRecv(k) ==
    /\ DrainAt(k, "recv")
    /\ drains[k].buf # << >>
    /\ SetDrain(k, [drains[k] EXCEPT !.buf = Tail(@), !.pck = Head(drains[k].buf),
                                     !.pc = "lock"])
    /\ UNCHANGED <<lifeVars, Streams, nextCid, mutex, ingest, produced, hist, gate>>

\* part_001 222-224: cast takes the lock and starts to range over Cl
CastLock(k) ==
    /\ DrainAt(k, "lock")
    /\ ~mutex
    /\ mutex' = TRUE
    /\ SetDrain(k, [drains[k] EXCEPT !.pc = "range",
                                     !.todo = DOMAIN Streams[ConfigUUID].Cl])
    /\ hist' = [v \in DOMAIN hist |->
                  [hist[v] EXCEPT !.cast = Append(@, drains[k].pck)]]
    /\ UNCHANGED <<lifeVars, Streams, nextCid, ingest, produced, gate>>

\* part_001 224-225: the next viewer of the range (a map: any order) and the
\* length test; a viewer whose queue has no room is passed over
CastRange(k) ==
    /\ DrainAt(k, "range")
    /\ \E v \in drains[k].todo :
         IF castRoom(Queue(v))
         THEN /\ SetDrain(k, [drains[k] EXCEPT !.pc = "send", !.cur = v])
              /\ UNCHANGED <<hist, Streams>>
         ELSE /\ SetDrain(k, [drains[k] EXCEPT !.todo = castAfterFull(@, v)])
              /\ SetQueue(v, castFull(Queue(v), drains[k].pck))
              /\ hist' = [hist EXCEPT ![v].dropped = @ \cup {drains[k].pck}]
    /\ UNCHANGED <<lifeVars, nextCid, mutex, ingest, produced, gate>>

\* part_001 226: v.c <- pck, a channel send: it waits while the queue is full
CastSend(k) ==
    /\ DrainAt(k, "send")
    /\ Len(Queue(drains[k].cur)) < QueueCap
    /\ SetQueue(drains[k].cur, Append(Queue(drains[k].cur), drains[k].pck))
    /\ SetDrain(k, [drains[k] EXCEPT !.pc = "range", !.todo = @ \ {drains[k].cur},
                                     !.cur = 0])
    /\ UNCHANGED <<lifeVars, nextCid, mutex, ingest, produced, hist, gate>>

\* part_001 223, 228-229: the range is over, the deferred Unlock; back in the
\* drain goroutine the next receive
CastUnlock(k) ==
    /\ DrainAt(k, "range")
    /\ drains[k].todo = {}
    /\ mutex' = FALSE
    /\ SetDrain(k, [drains[k] EXCEPT !.pc = "recv"])
    /\ UNCHANGED <<lifeVars, Streams, nextCid, ingest, produced, hist, gate>>

DrainStep(k) ==
    \/ DrainRecv(k)
    \/ CastLock(k)
    \/ CastRange(k)
    \/ CastSend(k)
    \/ CastUnlock(k)

\* part_001 277-284: clAd, one critical section
clAd(max) ==
    /\ ~mutex
    /\ nextCid < max
    /\ nextCid' = nextCid + 1
    /\ Streams' = clAdMap(Streams, ConfigUUID, nextCid + 1)
    /\ hist' = (nextCid + 1 :> NewHist) @@ hist
    /\ UNCHANGED <<lifeVars, mutex, drains, ingest, produced, gate>>

\* part_002 566: a viewer goroutine registers
ViewerAttach == clAd(MaxCastViewers)

\* part_002 598: pck := <-ch, the viewer receives the head of its queue
ViewerRecv(v) ==
    /\ v \in DOMAIN Streams[ConfigUUID].Cl
    /\ Queue(v) # << >>
    /\ SetQueue(v, Tail(Queue(v)))
    /\ hist' = [hist EXCEPT ![v].delivered = Append(@, Head(Queue(v)))]
    /\ UNCHANGED <<lifeVars, nextCid, mutex, drains, ingest, produced, gate>>

\* part_002 567, 595-597 and part_001 299-303: the viewer goroutine returns,
\* its deferred clDe removes the queue
ViewerDetach(v) ==
    /\ v \in DOMAIN Streams[ConfigUUID].Cl
    /\ ~mutex
    /\ Streams' = clDeMap(Streams, ConfigUUID, v)
    /\ hist' = [u \in DOMAIN hist \ {v} |-> hist[u]]
    /\ UNCHANGED <<lifeVars, nextCid, mutex, drains, ingest, produced, gate>>

(***************************************************************************)
(* The fan-out specification: the ingest loop has buffered MaxPackets      *)
(* units, its drain goroutine casts them to viewers that come, receive and *)
(* go.                                                                     *)
(***************************************************************************)
Units(n) == [i \in 1..n |-> i]

InitCast ==
    /\ target = ConfigUUID
    /\ Streams = [c \in Channels |->
                    IF c = ConfigUUID
                    THEN [ConfigStream(FALSE) EXCEPT !.Codecs = <<H264Ready>>]
                    ELSE ZeroStream]
    /\ workers = << >>
    /\ served = TRUE
    /\ offers = << >>
    /\ nextCid = 0
    /\ requested = {}
    /\ mutex = FALSE
    /\ drains = <<NewDrain(Units(MaxPackets))>>
    /\ ingest = [pc |-> "idle"]
    /\ produced = MaxPackets
    /\ hist = << >>
    /\ gate = [pc |-> "idle"]
    /\ rtsp = NoRtsp
    /\ wire = NoWire
    /\ loop = NoLoop
    /\ peer = NoPeer
    /\ locks = NoLocks
    /\ reg = NoReg
    /\ out = NoOut

NextCast ==
    \/ DrainStep(1)
    \/ ViewerAttach
    \/ \E v \in 1..MaxCastViewers : ViewerRecv(v)
    \/ \E v \in 1..MaxCastViewers : ViewerDetach(v)

SpecCast == InitCast /\ [][NextCast]_vars

(***************************************************************************)
(* The ingest goroutine of the configured channel: RTSPWorkerLoop and the  *)
(* select loop of RTSPWorker.  ingest is [pc, pck]:                        *)
(*   "dial"      from the start of an iteration to the return of Dial      *)
(*   "select"    at the select of RTSPWorker                               *)
(*   "dropRecv"  the non-blocking send found packetBuffer full; at the     *)
(*               receive "<-packetBuffer"                                  *)
(*   "dropSend"  at the send "packetBuffer <- *packetAV" that follows      *)
(*   "check"     RTSPWorker has returned, before the loop's HasViewer test *)
(*   "done"      the deferred RunUnlock has run, the goroutine has ended   *)
(* The packetBuffer of the running iteration is the buf of the last drain; *)
(* RTSPWorker returns without closing it, so the drain goroutines of       *)
(* earlier iterations stay at their receive (or go on with what is left).  *)
(***************************************************************************)
Cur == Len(drains)
CurBuf == drains[Cur].buf
SetCurBuf(buf) == drains' = [drains EXCEPT ![Cur].buf = buf]
IngestAt(pc) == ingest.pc = pc
IngestGoto(pc) == ingest' = [ingest EXCEPT !.pc = pc]

\* stream.go 90-99: rtspv2.Dial fails (or times out after 5 s)
IngestDialFail ==
    /\ IngestAt("dial")
    /\ IngestGoto("check")
    /\ UNCHANGED <<lifeVars, Streams, nextCid, mutex, drains, produced, hist, gate>>

\* stream.go 90-128: Dial succeeds, coAd, a new packetBuffer and its drain
\* goroutine
IngestDialOk ==
    /\ IngestAt("dial")
    /\ Len(drains) < MaxIters
    /\ Streams' = coAdMap(Streams, ConfigUUID, <<H264Ready>>)
    /\ drains' = Append(drains, NewDrain(<< >>))
    /\ IngestGoto("select")
    /\ UNCHANGED <<lifeVars, nextCid, mutex, produced, hist, gate>>

\* stream.go 164-168: a unit from OutgoingPacketQueue; the non-blocking send
\* to packetBuffer, or its default branch when the buffer is full
IngestPacket ==
    /\ IngestAt("select")
    /\ produced < MaxPackets
    /\ produced' = produced + 1
    /\ IF Len(CurBuf) < BufCap
       THEN /\ SetCurBuf(Append(CurBuf, produced + 1))
            /\ UNCHANGED ingest
       ELSE /\ ingest' = [ingest EXCEPT !.pc = "dropRecv", !.pck = produced + 1]
            /\ UNCHANGED drains
    /\ UNCHANGED <<lifeVars, Streams, nextCid, mutex, hist, gate>>

\* stream.go 170: <-packetBuffer, a channel receive: it waits while the
\* buffer is empty
IngestDropRecv ==
    /\ IngestAt("dropRecv")
    /\ CurBuf # << >>
    /\ SetCurBuf(Tail(CurBuf))
    /\ IngestGoto("dropSend")
    /\ UNCHANGED <<lifeVars, Streams, nextCid, mutex, produced, hist, gate>>

\* stream.go 171: packetBuffer <- *packetAV, a channel send
IngestDropSend ==
    /\ IngestAt("dropSend")
    /\ Len(CurBuf) < BufCap
    /\ SetCurBuf(Append(CurBuf, ingest.pck))
    /\ ingest' = [ingest EXCEPT !.pc = "select", !.pck = 0]
    /\ UNCHANGED <<lifeVars, Streams, nextCid, mutex, produced, hist, gate>>

\* stream.go 132-139: the clientTest timer; RTSPWorker returns when the
\* channel is on-demand and has no viewer, otherwise the timer is reset
IngestClientTest ==
    /\ IngestAt("select")
    /\ Streams[ConfigUUID].OnDemand /\ ~HasViewer(Streams, ConfigUUID)
    /\ IngestGoto("check")
    /\ UNCHANGED <<lifeVars, Streams, nextCid, mutex, drains, produced, hist, gate>>

\* stream.go 141-148: the keyTest timer (no key frame for 20 s)
IngestKeyTest ==
    /\ IngestAt("select")
    /\ IngestGoto("check")
    /\ UNCHANGED <<lifeVars, Streams, nextCid, mutex, drains, produced, hist, gate>>

\* stream.go 154-161: SignalStreamRTPStop
IngestSignalRTPStop ==
    /\ IngestAt("select")
    /\ IngestGoto("check")
    /\ UNCHANGED <<lifeVars, Streams, nextCid, mutex, drains, produced, hist, gate>>

\* stream.go 70-74 and 28-38: the no-viewer check of the loop: return (the
\* deferred RunUnlock runs), or sleep 1 s and start the next iteration
IngestCheck ==
    /\ IngestAt("check")
    /\ IF Streams[ConfigUUID].OnDemand /\ ~HasViewer(Streams, ConfigUUID)
       THEN /\ IngestGoto("done")
            /\ Streams' = RunUnlockMap(Streams, ConfigUUID)
       ELSE /\ IngestGoto("dial")
            /\ UNCHANGED Streams
    /\ UNCHANGED <<lifeVars, nextCid, mutex, drains, produced, hist, gate>>

IngestStep ==
    \/ IngestDialFail
    \/ IngestDialOk
    \/ IngestPacket
    \/ IngestDropRecv
    \/ IngestDropSend
    \/ IngestClientTest
    \/ IngestKeyTest
    \/ IngestSignalRTPStop
    \/ IngestCheck

\* rtsp_server.go 271-285 / part_002 566: a viewer registers
IngestViewerAttach == clAd(MaxViewers)

(***************************************************************************)
(* The ingest specification: the worker of the configured channel has just *)
(* been started (by serveStreams, or by RunIFNotRun when the channel is    *)
(* on-demand).                                                             *)
(***************************************************************************)
InitIngest ==
    /\ target = ConfigUUID
    /\ \E onDemand \in BOOLEAN :
         Streams = [c \in Channels |->
                      IF c = ConfigUUID
                      THEN [ConfigStream(onDemand) EXCEPT !.RunLock = onDemand]
                      ELSE ZeroStream]
    /\ workers = << >>
    /\ served = TRUE
    /\ offers = << >>
    /\ nextCid = 0
    /\ requested = {}
    /\ mutex = FALSE
    /\ drains = << >>
    /\ ingest = [pc |-> "dial", pck |-> 0]
    /\ produced = 0
    /\ hist = << >>
    /\ gate = [pc |-> "idle"]
    /\ rtsp = NoRtsp
    /\ wire = NoWire
    /\ loop = NoLoop
    /\ peer = NoPeer
    /\ locks = NoLocks
    /\ reg = NoReg
    /\ out = NoOut

NextIngest ==
    \/ IngestStep
    \/ \E k \in 1..MaxIters : DrainStep(k)
    \/ IngestViewerAttach
    \/ \E v \in 1..MaxViewers : ViewerRecv(v)
    \/ \E v \in 1..MaxViewers : ViewerDetach(v)

SpecIngest == InitIngest /\ [][NextIngest]_vars

(***************************************************************************)
(* Properties of the fan-out specification.                                *)
(***************************************************************************)
Range(q) == {q[i] : i \in DOMAIN q}
InCast(k) == drains[k].pc \in {"range", "send"}

\* what viewer v has got so far, in order: received, then still queued
Received(v) == hist[v].delivered \o Queue(v)

\* cast(p) is under way and has not reached viewer v yet
Pending(v, p) ==
    \E k \in DOMAIN drains : InCast(k) /\ drains[k].pck = p /\ v \in drains[k].todo

\* the units cast since v registered, less those cast passed over because
\* v's own queue had no room
Expected(v) ==
    SelectSeq(hist[v].cast, LAMBDA p : p \notin hist[v].dropped /\ ~Pending(v, p))

\* in this step drain goroutine k's cast is done with viewer v
Visited(k, v) ==
    /\ k \in DOMAIN drains
    /\ InCast(k)
    /\ v \in drains[k].todo
    /\ v \notin drains'[k].todo

\* C5: cast never waits at a send and no viewer queue exceeds its capacity:
\* whenever cast stands at "v.c <- pck" the queue of v has room (so the send
\* goes through whatever the consumers do), a cast under way holds the lock
\* and has only registered viewers left to visit, each once.
C5_CastNeverBlocks ==
    /\ \A v \in DOMAIN Streams[ConfigUUID].Cl : Len(Queue(v)) <= QueueCap
    /\ \A k \in DOMAIN drains :
         /\ InCast(k) => mutex /\ drains[k].todo \subseteq DOMAIN Streams[ConfigUUID].Cl
         /\ drains[k].pc = "send" =>
              /\ drains[k].cur \in drains[k].todo
              /\ Len(Queue(drains[k].cur)) < QueueCap

\* C5 witness: every buffered unit has been cast and cast has returned, while
\* a viewer that never received kept a full queue and had a unit passed over.
C5_Witness ==
    /\ drains[1].pc = "recv"
    /\ drains[1].buf = << >>
    /\ \E v \in DOMAIN hist :
         /\ hist[v].delivered = << >>
         /\ Len(Queue(v)) = QueueCap
         /\ hist[v].dropped # {}

\* C6 as stated: when cast reaches a viewer whose queue is full, the oldest
\* queued unit is evicted and the new unit becomes the last element.
C6_EvictsOldest ==
    [][\A k \in DOMAIN drains : \A v \in DOMAIN Streams[ConfigUUID].Cl :
          (Visited(k, v) /\ Len(Queue(v)) = QueueCap)
             => Streams'[ConfigUUID].Cl[v] = Append(Tail(Queue(v)), drains[k].pck)]_vars

\* C8: every unit passed to cast while a viewer is registered reaches that
\* viewer's queue unless the viewer's own queue is full at that moment: what a
\* viewer has got is exactly the units cast since it registered less those
\* dropped on its own full queue, so two viewers registered over the same
\* casts with no drop of their own have got the same sequence.
C8_EachViewerGetsEveryUnit ==
    /\ \A v \in DOMAIN hist : Received(v) = Expected(v)
    /\ \A v, w \in DOMAIN hist :
         (/\ hist[v].cast = hist[w].cast
          /\ hist[v].dropped = {} /\ hist[w].dropped = {}
          /\ \A k \in DOMAIN drains : ~InCast(k))
            => Received(v) = Received(w)

\* C8 witness: two viewers registered over the same casts, one lost a unit to
\* its own full queue and the other has got that unit.
C8_Witness ==
    \E v, w \in DOMAIN hist :
        /\ v # w
        /\ hist[v].cast = hist[w].cast
        /\ hist[w].dropped = {}
        /\ \E p \in hist[v].dropped : p \in Range(Received(w))

(***************************************************************************)
(* Properties of the ingest specification.                                 *)
(***************************************************************************)
Increasing(q) == \A i, j \in DOMAIN q : i < j => q[i] < q[j]

\* C4: once the last viewer of an on-demand channel has detached, the worker
\* terminates: as long as it has not ended it can take a step (a timer, a
\* signal or a unit lets the select go on; the loop's check lets it return).
\* A state in which the viewer set is empty and the worker, not ended, can
\* take no step refutes it: only the worker itself sends to its packetBuffer,
\* so a worker waiting at the receive of an empty buffer waits for ever.
C4_WorkerTerminates ==
    (/\ Streams[ConfigUUID].OnDemand
     /\ nextCid > 0
     /\ Viewers(ConfigUUID) = {}
     /\ ingest.pc # "done")
        => ENABLED IngestStep

\* C7: what a viewer gets is in upstream read order: of two units a viewer
\* has got, the one read earlier comes earlier.
C7_InOrder ==
    \A v \in DOMAIN hist : Increasing(Received(v))

\* C37: the drop-oldest step of the ingest loop never blocks: in its default
\* branch the receive from packetBuffer or the send that follows is possible,
\* so the loop comes back to its select.
C37_DropOldestNeverBlocks ==
    ingest.pc \in {"dropRecv", "dropSend"}
        => ENABLED (IngestDropRecv \/ IngestDropSend)

\* C38: the drain goroutine of an iteration ends with the iteration: a channel
\* never has more than one of them, and a goroutine of an earlier iteration
\* holds no unit and casts none.
C38_OneDrainGoroutine ==
    /\ Len(drains) <= 1
    /\ \A k \in DOMAIN drains :
          k < Len(drains) => (drains[k].buf = << >> /\ drains[k].pc = "recv")

(***************************************************************************)
(* The codec readiness gate.  gate is the coGe call under way:             *)
(* [pc, ch, i, slept, ret, first, allBad], i the loop counter, slept the   *)
(* number of 50 ms sleeps so far, ret the result; first (the codec list the *)
(* first poll read) and allBad (no poll so far read a ready list) record    *)
(* what the call has seen.                                                 *)
(***************************************************************************)
\* the bound of coGe's loop
CoGeAttempts == 100

\* the codec lists RTSPClient.CodecData can hold when RTSPWorker calls coAd
GateCodecs ==
    {<<H264Ready>>, <<H264Empty>>, <<H264NoPPS>>, <<AudioAAC>>,
     <<H264Ready, AudioAAC>>, <<H264Empty, AudioAAC>>}

\* the test of coGe's inner loop on one descriptor
CodecOk(codec) ==
    codec.Type = "H264" => (codec.SPS > 0 /\ codec.PPS > 0)

\* a codec list a viewer can be set up with
Ready(codecs) ==
    codecs # NilCodecs /\ \A n \in DOMAIN codecs : CodecOk(codecs[n])

\* coGe's inner loop over tmp.Codecs: a descriptor that fails the test costs
\* a sleep and a "continue", which goes on with the next descriptor of the
\* same list; the number of sleeps of the loop
RECURSIVE coGeRange(_)
coGeRange(codecs) ==
    IF codecs = << >>
    THEN 0
    ELSE (IF CodecOk(Head(codecs)) THEN 0 ELSE 1) + coGeRange(Tail(codecs))

\* one pass of coGe's outer loop on the entry tmp read under the lock:
\* the pass returns (ret) or sleeps and counts
coGePass(tmp) ==
    IF ~tmp.ok
    THEN [return |-> TRUE, ret |-> NilCodecs, sleeps |-> 0]
    ELSE IF tmp.Codecs # NilCodecs
         THEN [return |-> TRUE, ret |-> tmp.Codecs, sleeps |-> coGeRange(tmp.Codecs)]
         ELSE [return |-> FALSE, ret |-> NilCodecs, sleeps |-> 1]

\* a handler calls Config.coGe(suuid)
GateCall ==
    /\ gate.pc = "idle"
    /\ gate' = [pc |-> "poll", ch |-> target, i |-> 0, slept |-> 0,
                ret |-> NilCodecs, first |-> NilCodecs, allBad |-> TRUE]
    /\ UNCHANGED <<lifeVars, Streams, nextCid, mutex, drains, ingest, produced, hist>>

\* part_001 247-272: one pass of the loop
GatePass ==
    /\ gate.pc = "poll"
    /\ gate.i < CoGeAttempts
    /\ LET tmp == Streams[gate.ch]
           pass == coGePass(tmp)
       IN gate' = [gate EXCEPT
                     !.pc = IF pass.return THEN "done" ELSE "poll",
                     !.i = IF pass.return THEN @ ELSE @ + 1,
                     !.slept = @ + pass.sleeps,
                     !.ret = pass.ret,
                     !.first = IF gate.i = 0 THEN tmp.Codecs ELSE @,
                     !.allBad = @ /\ ~Ready(tmp.Codecs)]
    /\ UNCHANGED <<lifeVars, Streams, nextCid, mutex, drains, ingest, produced, hist>>

\* part_001 247, 274: the loop is over, return nil
GateExhausted ==
    /\ gate.pc = "poll"
    /\ gate.i = CoGeAttempts
    /\ gate' = [gate EXCEPT !.pc = "done", !.ret = NilCodecs]
    /\ UNCHANGED <<lifeVars, Streams, nextCid, mutex, drains, ingest, produced, hist>>

\* stream.go 102-104, 152-153: the worker of the channel stores the codec
\* list of its upstream (after Dial, and on SignalCodecUpdate)
GateCoAd ==
    /\ target = ConfigUUID
    /\ gate.pc # "done"
    /\ \E codecs \in GateCodecs :
         /\ codecs # Streams[ConfigUUID].Codecs
         /\ Streams' = coAdMap(Streams, ConfigUUID, codecs)
    /\ UNCHANGED <<lifeVars, nextCid, mutex, drains, ingest, produced, hist, gate>>

\* The gate specification: the worker of the configured channel runs, a
\* handler asks for the codecs of the channel the request names.
InitGate ==
    /\ target \in Channels
    /\ Streams = [c \in Channels |->
                    IF c = ConfigUUID
                    THEN [ConfigStream(TRUE) EXCEPT !.RunLock = TRUE]
                    ELSE ZeroStream]
    /\ workers = << >>
    /\ served = TRUE
    /\ offers = << >>
    /\ nextCid = 0
    /\ requested = {ConfigUUID}
    /\ mutex = FALSE
    /\ drains = << >>
    /\ ingest = [pc |-> "idle"]
    /\ produced = 0
    /\ hist = << >>
    /\ gate = [pc |-> "idle"]
    /\ rtsp = NoRtsp
    /\ wire = NoWire
    /\ loop = NoLoop
    /\ peer = NoPeer
    /\ locks = NoLocks
    /\ reg = NoReg
    /\ out = NoOut

NextGate ==
    \/ GateCall
    \/ GatePass
    \/ GateExhausted
    \/ GateCoAd

SpecGate == InitGate /\ [][NextGate]_vars

\* C9: a codec list coGe returns has non-empty SPS and PPS in every H264
\* descriptor.
C9_ReturnsOnlyReady ==
    (gate.pc = "done" /\ gate.ret # NilCodecs) => Ready(gate.ret)

\* C10: on an existing channel coGe returns a list that is ready at the first
\* poll without sleeping; when every poll finds the list absent or an H264
\* descriptor without parameter sets it returns nil; and it returns nil only
\* after all CoGeAttempts polls.
C10_BoundedWait ==
    (gate.pc = "done" /\ gate.ch = ConfigUUID) =>
        /\ Ready(gate.first) => (gate.ret = gate.first /\ gate.slept = 0)
        /\ gate.allBad => gate.ret = NilCodecs
        /\ gate.ret = NilCodecs => gate.i = CoGeAttempts

(***************************************************************************)
(* The RTSP inbound server (RTSPServer): its stream table and one          *)
(* connection.  Two versions of the server are in the source: rtsp_server.go *)
(* ("plain": a fixed Session header, no session table) and part_004        *)
(* ("session": a session per connection, a keep-alive poll in every        *)
(* streamToClient, the background sweep cleanupSessions); rtsp.variant      *)
(* says which one runs.                                                    *)
(*                                                                         *)
(* A request path is [kind, name]:                                         *)
(*   "bare"  name             (the path "*" is [bare, "*"])                *)
(*   "rel"   "/" name                                                      *)
(*   "url"   "rtsp://host/" name                                           *)
(*   "host"  "rtsp://host"                                                 *)
(***************************************************************************)
\* a second key of the configuration file, equal to ConfigUUID but for case
UpperUUID == "CAM1"
RtspChannels == Channels \cup {UpperUUID}

\* Unicode simple case folding, on the names of the model
Fold(name) ==
    IF name \in {"cam1", "CAM1", "Cam1"} THEN "cam1" ELSE name

\* strings.EqualFold
EqualFold(a, b) == Fold(a) = Fold(b)

\* (mutant of SameStream: RegisterStream compares the spellings as they are)
SameStreamExact(existingUUID, uuid) == existingUUID = uuid

\* RegisterStream's test against a registered key
SameStream(existingUUID, uuid) == EqualFold(existingUUID, uuid)

\* A request path is a prefix followed by segments joined with slashes.
Prefixes == {"rtsp://host/", "rtsp://host", "/", ""}
Segments == {<< >>, <<"*">>, <<"cam1">>, <<"Cam1">>, <<"cam2">>, <<"live", "cam1">>}

Paths ==
    {[prefix |-> x, segs |-> y] : x \in Prefixes \ {"rtsp://host"}, y \in Segments}
        \cup {[prefix |-> "rtsp://host", segs |-> << >>]}

StarPath == [prefix |-> "", segs |-> <<"*">>]

Methods == {"OPTIONS", "DESCRIBE", "SETUP", "PLAY", "TEARDOWN", "PAUSE"}

RECURSIVE Join(_)
Join(segs) ==
    IF segs = << >> THEN ""
    ELSE IF Len(segs) = 1 THEN segs[1]
    ELSE segs[1] \o "/" \o Join(Tail(segs))

\* strings.Split(urlPath, "/") of a path that starts with rtsp://
SplitParts(urlPath) ==
    <<"rtsp:", "", "host">> \o
        (IF urlPath.prefix = "rtsp://host" THEN << >>
         ELSE IF urlPath.segs = << >> THEN <<"">> ELSE urlPath.segs)

\* extractStreamUUID: the last part of an rtsp:// URL that has more than three
\* parts between slashes, the rest after a leading slash, or the path itself
extractStreamUUID(urlPath) ==
    IF urlPath.prefix \in {"rtsp://host/", "rtsp://host"}
    THEN LET parts == SplitParts(urlPath)
         IN IF Len(parts) > 3 THEN parts[Len(parts)] ELSE ""
    ELSE IF urlPath.prefix = "/"
         THEN Join(urlPath.segs)
         ELSE Join(urlPath.segs)

\* handleConnection's lookup: the keys of s.streams equal to the name but for
\* case (the loop breaks at the first one the map range yields)
Lookup(streams, streamUUID) ==
    {uuid \in streams : EqualFold(uuid, streamUUID)}

\* (mutant of Route: the test for an empty stream name is missing)
RouteNoEmptyTest(method, urlPath, streams) ==
    IF method = "OPTIONS" /\ urlPath = StarPath
    THEN "options"
    ELSE IF Lookup(streams, extractStreamUUID(urlPath)) = {}
         THEN "notFound"
         ELSE CASE method = "OPTIONS" -> "options"
                [] method = "DESCRIBE" -> "describe"
                [] method = "SETUP" -> "setup"
                [] method = "PLAY" -> "play"
                [] method = "TEARDOWN" -> "teardown"
                [] OTHER -> "methodNotAllowed"

\* (mutant of Route: the default case answers like OPTIONS)
RouteNoDefault(method, urlPath, streams) ==
    IF method = "OPTIONS" /\ urlPath = StarPath
    THEN "options"
    ELSE IF extractStreamUUID(urlPath) = ""
         THEN "options"
         ELSE IF Lookup(streams, extractStreamUUID(urlPath)) = {}
              THEN "notFound"
              ELSE CASE method = "OPTIONS" -> "options"
                     [] method = "DESCRIBE" -> "describe"
                     [] method = "SETUP" -> "setup"
                     [] method = "PLAY" -> "play"
                     [] method = "TEARDOWN" -> "teardown"
                     [] OTHER -> "options"

\* handleConnection 122-167: where a parsed request goes
Route(method, urlPath, streams) ==
    IF method = "OPTIONS" /\ urlPath = StarPath
    THEN "options"
    ELSE IF extractStreamUUID(urlPath) = ""
         THEN "options"
         ELSE IF Lookup(streams, extractStreamUUID(urlPath)) = {}
              THEN "notFound"
              ELSE CASE method = "OPTIONS" -> "options"
                     [] method = "DESCRIBE" -> "describe"
                     [] method = "SETUP" -> "setup"
                     [] method = "PLAY" -> "play"
                     [] method = "TEARDOWN" -> "teardown"
                     [] OTHER -> "methodNotAllowed"

\* responses: the status code and what the response carries
ReplyOptions == [code |-> 200, with |-> "Public"]
ReplyNotFound == [code |-> 404, with |-> ""]
ReplyNotAllowed == [code |-> 405, with |-> ""]
ReplyDescribe == [code |-> 200, with |-> "sdp"]
ReplySetup == [code |-> 200, with |-> "Transport"]
ReplyPlay == [code |-> 200, with |-> "Range"]
ReplyTeardown == [code |-> 200, with |-> "Session"]

NoRequest ==
    [method |-> "", urlPath |-> StarPath, uuid |-> "", replies |-> << >>,
     started |-> FALSE, attached |-> FALSE]

(***************************************************************************)
(* rtsp is [variant, streams, regLog, sid, session, swept, peer, reader,   *)
(* methods, paths, n, last, players]:                                      *)
(*   streams   the keys of s.streams                                       *)
(*   regLog    the names RegisterStream was called with, in order          *)
(*   sid       the session id of the connection (a pseudoUUID)             *)
(*   session   "none": s.sessions has no entry for sid; "fresh" / "stale": *)
(*             it has one, LastActive within / beyond the idle threshold   *)
(*   swept     cleanupSessions has removed the session                     *)
(*   peer      "up" / "gone": the client end of the connection             *)
(*   reader    "read" / "closed": handleConnection is in its loop / gone   *)
(*   methods, paths   the requests the client of the connection sends      *)
(*   n, last   the requests handled so far and the last one: its method,   *)
(*             path, resolved key, the responses written for it, whether   *)
(*             it started a worker, whether it registered a viewer         *)
(*   players   the streamToClient goroutines: [ch, cid, did, pc, keepAlive, *)
(*             poll, fails, frame], cid the key clAd returned, did the id  *)
(*             given to the deferred clDe, pc "range" / "ended", poll the  *)
(*             keep-alive goroutine runs, fails the failed writes (0, 1,   *)
(*             or 2 for more), frame the last frame written                *)
(***************************************************************************)
rtspOther ==
    <<served, offers, target, mutex, drains, ingest, produced, hist, gate, moreVars>>

Reading(method, urlPath, route) ==
    /\ rtsp.reader = "read"
    /\ rtsp.peer = "up"
    /\ rtsp.n < MaxRequests
    /\ method \in rtsp.methods
    /\ urlPath \in rtsp.paths
    /\ Route(method, urlPath, rtsp.streams) = route

\* part_004 179-192: the session of the connection is made or refreshed
Touched == IF rtsp.variant = "session" THEN "fresh" ELSE rtsp.session

Handled(method, urlPath, uuid, replies, started, attached, session) ==
    [rtsp EXCEPT !.n = @ + 1,
                 !.session = session,
                 !.last = [method |-> method, urlPath |-> urlPath, uuid |-> uuid,
                           replies |-> replies, started |-> started,
                           attached |-> attached]]

\* rtsp_server.go 312-332: RegisterStream, called for the keys of the
\* configuration in the order the map range yields them
RegisterStream(uuid) ==
    /\ \A i \in DOMAIN rtsp.regLog : rtsp.regLog[i] # uuid
    /\ rtsp' = [rtsp EXCEPT
                  !.regLog = Append(@, uuid),
                  !.streams = IF \E existingUUID \in rtsp.streams :
                                     SameStream(existingUUID, uuid)
                              THEN @
                              ELSE @ \cup {uuid}]
    /\ UNCHANGED <<Streams, workers, requested, nextCid, rtspOther>>

\* rtsp_server.go 122-131, 154-155, 187-194: sendOptionsResponse, for
\* "OPTIONS *", for an empty stream name and for OPTIONS on a registered stream
sendOptionsResponse ==
    /\ \E method \in Methods, urlPath \in Paths :
         /\ Reading(method, urlPath, "options")
         /\ IF (method = "OPTIONS" /\ urlPath = StarPath)
               \/ extractStreamUUID(urlPath) = ""
            THEN rtsp' = Handled(method, urlPath, "", <<ReplyOptions>>,
                                 FALSE, FALSE, rtsp.session)
            ELSE \E uuid \in Lookup(rtsp.streams, extractStreamUUID(urlPath)) :
                    rtsp' = Handled(method, urlPath, uuid, <<ReplyOptions>>,
                                    FALSE, FALSE, Touched)
    /\ UNCHANGED <<Streams, workers, requested, nextCid, rtspOther>>

\* rtsp_server.go 145-149, 196-202
sendNotFoundResponse ==
    /\ \E method \in Methods, urlPath \in Paths :
         /\ Reading(method, urlPath, "notFound")
         /\ rtsp' = Handled(method, urlPath, "", <<ReplyNotFound>>,
                            FALSE, FALSE, rtsp.session)
    /\ UNCHANGED <<Streams, workers, requested, nextCid, rtspOther>>

\* rtsp_server.go 165-166, 204-210
sendMethodNotAllowedResponse ==
    /\ \E method \in Methods, urlPath \in Paths :
         /\ Reading(method, urlPath, "methodNotAllowed")
         /\ \E uuid \in Lookup(rtsp.streams, extractStreamUUID(urlPath)) :
              rtsp' = Handled(method, urlPath, uuid, <<ReplyNotAllowed>>,
                              FALSE, FALSE, Touched)
    /\ UNCHANGED <<Streams, workers, requested, nextCid, rtspOther>>

\* rtsp_server.go 212-237: RunIFNotRun, the codec wait, and the SDP when the
\* wait ends with codecs; without codecs the handler returns
RtspDescribe ==
    /\ \E urlPath \in Paths :
         /\ Reading("DESCRIBE", urlPath, "describe")
         /\ \E uuid \in Lookup(rtsp.streams, extractStreamUUID(urlPath)) :
              /\ RunIFNotRun(uuid)
              /\ rtsp' = Handled("DESCRIBE", urlPath, uuid,
                                 IF coGePass(Streams[uuid]).ret = NilCodecs
                                 THEN << >>
                                 ELSE <<ReplyDescribe>>,
                                 RunIFNotRunStarts(Streams, uuid), FALSE, Touched)
    /\ UNCHANGED <<nextCid, rtspOther>>

\* rtsp_server.go 239-269
RtspSetup ==
    /\ \E urlPath \in Paths :
         /\ Reading("SETUP", urlPath, "setup")
         /\ \E uuid \in Lookup(rtsp.streams, extractStreamUUID(urlPath)) :
              /\ RunIFNotRun(uuid)
              /\ rtsp' = Handled("SETUP", urlPath, uuid, <<ReplySetup>>,
                                 RunIFNotRunStarts(Streams, uuid), FALSE, Touched)
    /\ UNCHANGED <<nextCid, rtspOther>>

\* len(pkt.Data) of the packets of the model: one that fits 16 bits and one
\* that does not
PacketLens == {258, 65794}

\* byte(x): the conversion keeps the low eight bits
Byte(x) == x % 256

\* streamToClient 299-307: the header, and the bytes of the two writes
Frame(packetLength) ==
    [header |-> <<36, 0, Byte(packetLength \div 256), Byte(packetLength % 256)>>,
     written |-> packetLength]

NoFrame == [header |-> << >>, written |-> 0]

\* rtsp_server.go 271-285 / part_004 321-333: the response, clAd (whose key is
\* dropped) and a streamToClient goroutine that is given another id: a fresh
\* pseudoUUID in rtsp_server.go, the session id in part_004
RtspPlay ==
    /\ Len(rtsp.players) < MaxViewers
    /\ \E urlPath \in Paths :
         /\ Reading("PLAY", urlPath, "play")
         /\ \E uuid \in Lookup(rtsp.streams, extractStreamUUID(urlPath)) :
              LET plain == rtsp.variant = "plain"
                  clientID == IF plain THEN nextCid + 1 ELSE rtsp.sid
                  cuuid == IF plain THEN nextCid + 2 ELSE nextCid + 1
                  player == [ch |-> uuid, cid |-> cuuid, did |-> clientID,
                             pc |-> "range", keepAlive |-> TRUE,
                             poll |-> ~plain, fails |-> 0, frame |-> NoFrame]
              IN /\ nextCid' = cuuid
                 /\ Streams' = clAdMap(Streams, uuid, cuuid)
                 /\ rtsp' = [Handled("PLAY", urlPath, uuid, <<ReplyPlay>>,
                                     FALSE, TRUE, Touched)
                               EXCEPT !.players = Append(@, player)]
    /\ UNCHANGED <<workers, requested, rtspOther>>

\* rtsp_server.go 287-294 / part_004 209-214, 335-342: the response; part_004
\* then deletes the session; the loop of handleConnection goes on
RtspTeardown ==
    /\ \E urlPath \in Paths :
         /\ Reading("TEARDOWN", urlPath, "teardown")
         /\ \E uuid \in Lookup(rtsp.streams, extractStreamUUID(urlPath)) :
              rtsp' = Handled("TEARDOWN", urlPath, uuid, <<ReplyTeardown>>,
                              FALSE, FALSE, "none")
    /\ UNCHANGED <<Streams, workers, requested, nextCid, rtspOther>>

\* the client end of the connection goes away
PeerClose ==
    /\ rtsp.peer = "up"
    /\ rtsp' = [rtsp EXCEPT !.peer = "gone"]
    /\ UNCHANGED <<Streams, workers, requested, nextCid, rtspOther>>

\* rtsp_server.go 82-86 / part_004 101-112: conn.Read fails, because the peer
\* is gone or, in part_004, because the 60 s read deadline passed; part_004
\* deletes the session; handleConnection returns
ConnReadError ==
    /\ rtsp.reader = "read"
    /\ rtsp.peer = "gone" \/ rtsp.variant = "session"
    /\ rtsp' = [rtsp EXCEPT !.reader = "closed",
                            !.session = IF rtsp.variant = "session"
                                        THEN "none" ELSE @]
    /\ UNCHANGED <<Streams, workers, requested, nextCid, rtspOther>>

\* part_004 427: now.Sub(session.LastActive) > 2*time.Minute becomes true
\* while the handler of the connection is held in a conn.Write, which has no
\* deadline
SessionExpire ==
    /\ rtsp.session = "fresh"
    /\ rtsp' = [rtsp EXCEPT !.session = "stale"]
    /\ UNCHANGED <<Streams, workers, requested, nextCid, rtspOther>>

\* part_004 417-434: one tick of the sweep
cleanupSessions ==
    /\ rtsp.variant = "session"
    /\ rtsp' = IF rtsp.session = "stale"
               THEN [rtsp EXCEPT !.session = "none", !.swept = TRUE]
               ELSE rtsp
    /\ UNCHANGED <<Streams, workers, requested, nextCid, rtspOther>>

\* part_004 347-359: one round of the keep-alive goroutine of a player
KeepAlivePoll(p) ==
    /\ p \in DOMAIN rtsp.players
    /\ rtsp.players[p].poll
    /\ rtsp' = IF rtsp.session = "none"
               THEN [rtsp EXCEPT !.players[p].keepAlive = FALSE,
                                 !.players[p].poll = FALSE]
               ELSE rtsp
    /\ UNCHANGED <<Streams, workers, requested, nextCid, rtspOther>>

\* part_001 221-229 for a packet of a worker with an open upstream; a packet
\* is the length of its payload
RtspCast(uuid) ==
    /\ OpenConnections(uuid) # {}
    /\ DOMAIN Streams[uuid].Cl # {}
    /\ \E pck \in PacketLens :
         Streams' = [Streams EXCEPT ![uuid].Cl =
                       [v \in DOMAIN @ |-> IF castRoom(@[v])
                                           THEN Append(@[v], pck)
                                           ELSE castFull(@[v], pck)]]
    /\ UNCHANGED <<workers, requested, nextCid, rtsp, rtspOther>>

\* rtsp_server.go 296-310 / part_004 344-374: one round of the range over ch.
\* part_004 first reads keepAlive, which the keep-alive goroutine writes with
\* no synchronisation: once it is false the read yields either value.  Then
\* the two conn.Write calls, whose results are dropped.  A return runs the
\* deferred clDe with the id the goroutine was given.
StreamRecv(p) ==
    /\ p \in DOMAIN rtsp.players
    /\ rtsp.players[p].pc = "range"
    /\ LET player == rtsp.players[p]
           popped == [Streams EXCEPT ![player.ch].Cl[player.cid] = Tail(@)]
       IN /\ player.cid \in DOMAIN Streams[player.ch].Cl
          /\ Streams[player.ch].Cl[player.cid] # << >>
          /\ \E sees \in (IF player.keepAlive THEN {TRUE} ELSE BOOLEAN) :
               IF ~sees
               THEN /\ Streams' = clDeMap(popped, player.ch, player.did)
                    /\ rtsp' = [rtsp EXCEPT !.players[p].pc = "ended"]
               ELSE /\ Streams' = popped
                    /\ rtsp' = [rtsp EXCEPT
                                  !.players[p].frame =
                                     Frame(Head(Streams[player.ch].Cl[player.cid])),
                                  !.players[p].fails =
                                     IF rtsp.peer = "gone"
                                     THEN (IF @ = 0 THEN 1 ELSE 2) ELSE @]
    /\ UNCHANGED <<workers, requested, nextCid, rtspOther>>

RtspVariants == {"plain", "session"}

\* The server after NewRTSPServer with one connection accepted (part_004 96:
\* the session id is the first pseudoUUID), before serveStreams has run.
InitServer(keySets, methods, paths) ==
    /\ \E keys \in keySets :
         Streams = [c \in RtspChannels |->
                      IF c \in keys THEN ConfigStream(TRUE) ELSE ZeroStream]
    /\ \E variant \in RtspVariants :
         /\ rtsp = [variant |-> variant, streams |-> {}, regLog |-> << >>,
                    sid |-> IF variant = "session" THEN 1 ELSE 0,
                    session |-> "none", swept |-> FALSE, peer |-> "up",
                    reader |-> "read", methods |-> methods, paths |-> paths,
                    n |-> 0, last |-> NoRequest, players |-> << >>]
         /\ nextCid = IF variant = "session" THEN 1 ELSE 0
    /\ workers = << >>
    /\ served = TRUE
    /\ offers = << >>
    /\ requested = {}
    /\ target = ConfigUUID
    /\ mutex = FALSE
    /\ drains = << >>
    /\ ingest = [pc |-> "idle"]
    /\ produced = 0
    /\ hist = << >>
    /\ gate = [pc |-> "idle"]
    /\ wire = NoWire
    /\ loop = NoLoop
    /\ peer = NoPeer
    /\ locks = NoLocks
    /\ reg = NoReg
    /\ out = NoOut

(***************************************************************************)
(* The dispatch specification: registration and the requests of one        *)
(* connection, over every method and path of the model.                    *)
(***************************************************************************)
InitRtsp == InitServer({{ConfigUUID}, {ConfigUUID, UpperUUID}}, Methods, Paths)

Registration == \E uuid \in RtspChannels : Streams[uuid].ok /\ RegisterStream(uuid)

NextRtsp ==
    \/ Registration
    \/ sendOptionsResponse
    \/ sendNotFoundResponse
    \/ sendMethodNotAllowedResponse
    \/ RtspDescribe
    \/ RtspSetup
    \/ RtspPlay
    \/ RtspTeardown
    \/ \E i \in 1..MaxWorkers : WorkerDialOk(i)

SpecRtsp == InitRtsp /\ [][NextRtsp]_vars

(***************************************************************************)
(* The viewer specification: a client that sends DESCRIBE, PLAY and        *)
(* TEARDOWN for one path, the packets of the worker, the consumer          *)
(* goroutines, the session table and its sweep.                            *)
(***************************************************************************)
PlayMethods == {"DESCRIBE", "PLAY", "TEARDOWN"}
PlayPaths == {[prefix |-> "/", segs |-> <<"cam1">>]}

InitPlay == InitServer({{ConfigUUID}}, PlayMethods, PlayPaths)

NextPlay ==
    \/ Registration
    \/ sendNotFoundResponse
    \/ RtspDescribe
    \/ RtspPlay
    \/ RtspTeardown
    \/ PeerClose
    \/ ConnReadError
    \/ SessionExpire
    \/ cleanupSessions
    \/ \E p \in 1..MaxViewers : KeepAlivePoll(p)
    \/ \E i \in 1..MaxWorkers : WorkerDialOk(i)
    \/ \E uuid \in RtspChannels : RtspCast(uuid)
    \/ \E p \in 1..MaxViewers : StreamRecv(p)

SpecPlay == InitPlay /\ [][NextPlay]_vars

(***************************************************************************)
(* Properties of the dispatch specification.                               *)
(***************************************************************************)
\* the names passed to RegisterStream before the i-th call
Earlier(i) == {rtsp.regLog[j] : j \in 1..(i - 1)}

\* the calls whose name no earlier call had in another or the same spelling
FirstSpellings ==
    {rtsp.regLog[i] : i \in {k \in DOMAIN rtsp.regLog :
                               \A e \in Earlier(k) : ~EqualFold(e, rtsp.regLog[k])}}

\* the channels a Registry operation has been applied to
RegistryKeys ==
    requested \cup {workers[i].ch : i \in DOMAIN workers}
        \cup {c \in DOMAIN Streams : Streams[c].RunLock \/ DOMAIN Streams[c].Cl # {}}

KnownMethods == {"OPTIONS", "DESCRIBE", "SETUP", "PLAY", "TEARDOWN"}

\* the step handles a request
Handles == rtsp'.n = rtsp.n + 1

\* the stream name of the request the step handles, and whether a key
\* registered before the step equals it ignoring case
NameHandled == extractStreamUUID(rtsp'.last.urlPath)
ResolvesBefore == \E k \in rtsp.streams : EqualFold(k, NameHandled)

C17_UnresolvedIs404 ==
    (rtsp.last.method \in {"DESCRIBE", "SETUP", "PLAY", "TEARDOWN"}
        /\ rtsp.last.uuid = "") =>
       /\ rtsp.last.replies = <<ReplyNotFound>>
       /\ ~rtsp.last.started
       /\ ~rtsp.last.attached

C19_ExactlyOneResponse ==
    rtsp.n > 0 => Len(rtsp.last.replies) = 1

(***************************************************************************)
(* Properties of the viewer specification.                                 *)
(***************************************************************************)
Players == DOMAIN rtsp.players
Registered(p) == rtsp.players[p].cid \in DOMAIN Streams[rtsp.players[p].ch].Cl
Consuming(p) == rtsp.players[p].pc = "range"

\* C11: once a TEARDOWN has been answered on a connection that has issued
\* PLAY, the viewer that PLAY registered is out of the channel's viewer set
\* and the request-reading loop of the connection has ended.
C11_TeardownRemovesViewer ==
    (rtsp.last.method = "TEARDOWN" /\ rtsp.last.replies = <<ReplyTeardown>>
        /\ Players # {}) =>
       /\ \A p \in Players : ~Registered(p)
       /\ rtsp.reader = "closed"

\* C12: once the sweep has removed the session and the consumers the session
\* started have returned, the viewers the session registered are out of the
\* channel's viewer set.
C12_SweepRemovesViewers ==
    (rtsp.swept /\ \A p \in Players : ~Consuming(p)) =>
       \A p \in Players : ~Registered(p)

\* C13: a consumer makes no write after its first failed one, and the
\* registration of a consumer that has returned is removed.
C13_StopsAtFirstFailedWrite ==
    \A p \in Players :
       /\ rtsp.players[p].fails <= 1
       /\ ~Consuming(p) => ~Registered(p)

\* C14: for every channel the number of entries of the viewer set equals the
\* number of consumer goroutines reading queues of that channel.
C14_ViewerSetMatchesConsumers ==
    \A c \in DOMAIN Streams :
       Cardinality(DOMAIN Streams[c].Cl) =
          Cardinality({p \in Players : rtsp.players[p].ch = c /\ Consuming(p)})

(***************************************************************************)
(* The RTSP server on the wire: the request lines and headers read from    *)
(* the connections and the responses written, in the three versions of     *)
(* the server: part_003 ("fixed"), rtsp_server.go ("plain") and part_004   *)
(* ("session").                                                            *)
(*                                                                         *)
(* wire is [variant, conns, n, last]; a connection is [sid, open, session,  *)
(* setup, short]: the session id handleConnection drew (part_004), whether *)
(* its goroutine is in the read loop, whether s.sessions has its entry,    *)
(* the Session value of its last SETUP response (0: none), and whether it  *)
(* has read a short request line; n is the number of requests read so far, *)
(* last the last read: [conn, req, resp].                                  *)
(***************************************************************************)
WireVariants == {"fixed", "plain", "session"}

\* the connections of a run
Conns == {1, 2}

\* A request as read: the number of space-separated fields of its first
\* line, the first two of them, and the lines after it.
HeaderLine(key, value) == [colon |-> TRUE, key |-> key, value |-> value]
BareLine == [colon |-> FALSE, key |-> "", value |-> ""]

WireHeaders ==
    {<< >>,
     <<BareLine, HeaderLine("Transport", "RTP/AVP/TCP"), HeaderLine("CSeq", "7")>>}

WirePaths ==
    {[prefix |-> "/", segs |-> <<"cam1">>],
     [prefix |-> "/", segs |-> <<"cam2">>],
     [prefix |-> "/", segs |-> << >>]}

WireRequests ==
    {[fields |-> 3, method |-> m, urlPath |-> u, headers |-> h] :
        m \in Methods, u \in WirePaths, h \in WireHeaders}
      \cup {[fields |-> f, method |-> "", urlPath |-> StarPath, headers |-> << >>] :
              f \in {1, 2}}

NoWireRequest == [fields |-> 0, method |-> "", urlPath |-> StarPath, headers |-> << >>]

\* handleConnection 104-115: headers[key] = value for every line with a colon
HeaderValue(headers, key, default) ==
    LET at == {i \in DOMAIN headers : headers[i].colon /\ headers[i].key = key}
    IN IF at = {} THEN default
       ELSE headers[CHOOSE i \in at : \A k \in at : k <= i].value

\* handleConnection 117-120: cseq := "1", replaced by headers["CSeq"]
ParseCSeq(headers) == HeaderValue(headers, "CSeq", "1")

\* the CSeq header of a response: part_003 writes "CSeq: 1" in every response
ResponseCSeq(variant, headers) ==
    IF variant = "fixed" THEN "1" ELSE ParseCSeq(headers)

\* the Session header of the SETUP, PLAY and TEARDOWN responses
FixedSession == 12345678
ResponseSession(variant, sid) ==
    IF variant = "session" THEN sid ELSE FixedSession

\* handleDescribe: the SDP, line by line; every line ends with \r\n
SdpLines ==
    <<"v=0", "o=- 0 0 IN IP4 127.0.0.1", "s=RTSP Server", "t=0 0",
      "m=video 0 RTP/AVP 96", "a=rtpmap:96 H264/90000">>

RECURSIVE ByteLen(_)
ByteLen(lines) ==
    IF lines = << >> THEN 0 ELSE Len(Head(lines)) + 2 + ByteLen(Tail(lines))

\* the Content-Length header of the DESCRIBE response: the literal 100 in
\* part_003, len(sdp) in the others
FixedContentLength == 100
ContentLength(variant, body) ==
    IF variant = "fixed" THEN FixedContentLength ELSE ByteLen(body)

\* part_003 92-120: where a parsed request goes
RouteFixed(method, urlPath, streams) ==
    IF urlPath.prefix # "/"
    THEN "drop"
    ELSE IF Join(urlPath.segs) = ""
         THEN "options"
         ELSE IF Join(urlPath.segs) \notin streams
              THEN "notFound"
              ELSE CASE method = "OPTIONS" -> "options"
                     [] method = "DESCRIBE" -> "describe"
                     [] method = "SETUP" -> "setup"
                     [] method = "PLAY" -> "play"
                     [] method = "TEARDOWN" -> "teardown"
                     [] OTHER -> "methodNotAllowed"

\* (mutant of WireRoute: a short request line is answered 404)
WireRouteAnswersShort(variant, req, streams) ==
    IF req.fields < 3 THEN "notFound"
    ELSE IF variant = "fixed" THEN RouteFixed(req.method, req.urlPath, streams)
    ELSE Route(req.method, req.urlPath, streams)

\* handleConnection: a request line of fewer than three fields is skipped
WireRoute(variant, req, streams) ==
    IF req.fields < 3 THEN "drop"
    ELSE IF variant = "fixed" THEN RouteFixed(req.method, req.urlPath, streams)
    ELSE Route(req.method, req.urlPath, streams)

\* the key the handlers get: part_003 uses the name of the path, the others
\* the registered key
WireKey(variant, req, streams) ==
    IF variant = "fixed" THEN Join(req.urlPath.segs)
    ELSE CHOOSE uuid \in Lookup(streams, extractStreamUUID(req.urlPath)) : TRUE

Response(code, cseq, with, session, length, body) ==
    [code |-> code, cseq |-> cseq, with |-> with, session |-> session,
     length |-> length, body |-> body]

\* what the route writes to the connection
WireResponses(variant, route, req, sid, codecs) ==
    LET cseq == ResponseCSeq(variant, req.headers)
        session == ResponseSession(variant, sid)
    IN CASE route = "options" -> <<Response(200, cseq, "Public", 0, -1, << >>)>>
         [] route = "notFound" -> <<Response(404, cseq, "", 0, -1, << >>)>>
         [] route = "methodNotAllowed" -> <<Response(405, cseq, "", 0, -1, << >>)>>
         [] route = "describe" ->
              IF codecs = NilCodecs THEN << >>
              ELSE <<Response(200, cseq, "sdp", 0,
                              ContentLength(variant, SdpLines), SdpLines)>>
         [] route = "setup" -> <<Response(200, cseq, "Transport", session, -1, << >>)>>
         [] route = "play" -> <<Response(200, cseq, "Range", session, -1, << >>)>>
         [] route = "teardown" -> <<Response(200, cseq, "", session, -1, << >>)>>
         [] OTHER -> << >>

wireOther ==
    <<served, offers, target, mutex, drains, ingest, produced, hist, gate, rtsp,
      loop, peer, restVars>>

\* s.streams after serveStreams
WireStreams == {ConfigUUID}

NewConn(sid) ==
    [sid |-> sid, open |-> TRUE, session |-> FALSE, setup |-> 0, short |-> FALSE]

\* the lookup of handleConnection has succeeded (part_004 179-192 then makes
\* or refreshes the session of the connection)
WireResolved(variant, req) ==
    /\ variant # "fixed"
    /\ req.fields = 3
    /\ ~(req.method = "OPTIONS" /\ req.urlPath = StarPath)
    /\ extractStreamUUID(req.urlPath) # ""
    /\ Lookup(WireStreams, extractStreamUUID(req.urlPath)) # {}

\* one round of the loop of handleConnection: read, parse, dispatch, handler
WireRead(c) ==
    /\ c \in DOMAIN wire.conns
    /\ wire.conns[c].open
    /\ wire.n < MaxRequests
    /\ \E req \in WireRequests :
         LET variant == wire.variant
             conn == wire.conns[c]
             route == WireRoute(variant, req, WireStreams)
             handled == route \in {"describe", "setup", "play", "teardown"}
             uuid == IF handled THEN WireKey(variant, req, WireStreams) ELSE ConfigUUID
             resp == WireResponses(variant, route, req, conn.sid,
                                   coGePass(Streams[uuid]).ret)
             session == IF variant # "session" THEN FALSE
                        ELSE IF route = "teardown" THEN FALSE
                        ELSE IF WireResolved(variant, req) THEN TRUE
                        ELSE conn.session
             ids == IF variant = "session" THEN 1 ELSE 2
         IN /\ wire' = [wire EXCEPT
                          !.n = @ + 1,
                          !.conns[c] = [conn EXCEPT
                                          !.short = @ \/ req.fields < 3,
                                          !.session = session,
                                          !.setup = IF route = "setup"
                                                    THEN resp[1].session ELSE @],
                          !.last = [conn |-> c, req |-> req, resp |-> resp]]
            /\ IF route = "describe" \/ (route = "setup" /\ variant # "fixed")
               THEN RunIFNotRun(uuid) /\ UNCHANGED nextCid
               ELSE IF route = "play"
                    THEN /\ nextCid' = nextCid + ids
                         /\ Streams' = clAdMap(Streams, uuid, nextCid + ids)
                         /\ UNCHANGED <<workers, requested>>
                    ELSE UNCHANGED <<Streams, workers, requested, nextCid>>
    /\ UNCHANGED wireOther

\* conn.Read fails: handleConnection returns; part_004 deletes the session
WireReadError(c) ==
    /\ c \in DOMAIN wire.conns
    /\ wire.conns[c].open
    /\ wire' = [wire EXCEPT !.conns[c].open = FALSE, !.conns[c].session = FALSE]
    /\ UNCHANGED <<Streams, workers, requested, nextCid, wireOther>>

\* The server with s.streams filled by serveStreams and the connections
\* accepted (part_004 96: each handleConnection has drawn its session id).
InitWire ==
    /\ \E codecs \in UpstreamCodecs :
         Streams = [c \in Channels |->
                      IF c = ConfigUUID
                      THEN [ConfigStream(TRUE) EXCEPT !.Codecs = codecs]
                      ELSE ZeroStream]
    /\ \E variant \in WireVariants :
         /\ wire = [variant |-> variant,
                    conns |-> [c \in Conns |->
                                 NewConn(IF variant = "session" THEN c ELSE 0)],
                    n |-> 0,
                    last |-> [conn |-> 0, req |-> NoWireRequest, resp |-> << >>]]
         /\ nextCid = IF variant = "session" THEN Cardinality(Conns) ELSE 0
    /\ workers = << >>
    /\ served = TRUE
    /\ offers = << >>
    /\ requested = {}
    /\ target = ConfigUUID
    /\ mutex = FALSE
    /\ drains = << >>
    /\ ingest = [pc |-> "idle"]
    /\ produced = 0
    /\ hist = << >>
    /\ gate = [pc |-> "idle"]
    /\ rtsp = NoRtsp
    /\ loop = NoLoop
    /\ peer = NoPeer
    /\ locks = NoLocks
    /\ reg = NoReg
    /\ out = NoOut

NextWire ==
    \/ \E c \in Conns : WireRead(c)
    \/ \E c \in Conns : WireReadError(c)

SpecWire == InitWire /\ [][NextWire]_vars

(***************************************************************************)
(* Properties of the wire specification.                                   *)
(***************************************************************************)
LastResponses == {wire.last.resp[i] : i \in DOMAIN wire.last.resp}

\* C21: every response carries the CSeq value of the request it answers, and
\* the value 1 when the request has no CSeq header.
C21_CSeqEchoed ==
    \A r \in LastResponses : r.cseq = HeaderValue(wire.last.req.headers, "CSeq", "1")

\* C22: in every 200 response to DESCRIBE the Content-Length value is the
\* number of bytes of the SDP body.
C22_ContentLengthExact ==
    \A r \in LastResponses : r.with = "sdp" => r.length = ByteLen(r.body)

\* C24: two connections never get the same Session id from SETUP, and the
\* Session header of the PLAY and TEARDOWN responses of a connection carries
\* the id its SETUP returned.
C24_FreshSessionId ==
    /\ \A c, d \in Conns :
          (c # d /\ wire.conns[c].setup # 0 /\ wire.conns[d].setup # 0) =>
             wire.conns[c].setup # wire.conns[d].setup
    /\ \A r \in LastResponses :
          (wire.last.req.method \in {"PLAY", "TEARDOWN"} /\ r.session # 0
             /\ wire.conns[wire.last.conn].setup # 0) =>
             r.session = wire.conns[wire.last.conn].setup

\* C28: a request line of fewer than three fields gets no response and
\* changes neither the registry and its viewer sets nor the session table,
\* and its connection stays in the read loop; a connection leaves the read
\* loop only in a step that is a read error, not the handling of a request.
C28_ShortLineDropped ==
    [][/\ (wire'.n = wire.n + 1 /\ wire'.last.req.fields < 3) =>
            /\ wire'.last.resp = << >>
            /\ UNCHANGED <<Streams, workers, requested, nextCid>>
            /\ \A c \in Conns :
                  /\ wire'.conns[c].session = wire.conns[c].session
                  /\ wire'.conns[c].open = wire.conns[c].open
       /\ \A c \in Conns :
             (wire.conns[c].open /\ ~wire'.conns[c].open) => wire'.n = wire.n]_vars

\* a connection that had read a short request line got a later request
\* answered
C28_Witness ==
    /\ wire.last.conn \in Conns
    /\ wire.conns[wire.last.conn].short
    /\ wire.last.req.fields = 3
    /\ wire.last.resp # << >>

\* C23: every frame written by streamToClient is the byte 0x24, a channel
\* id byte and a 16-bit big-endian length equal to the number of payload
\* bytes written after the header.
C23_FrameLengthExact ==
    \A p \in Players :
       LET frame == rtsp.players[p].frame
       IN frame # NoFrame =>
             /\ frame.header[1] = 36
             /\ frame.header[3] * 256 + frame.header[4] = frame.written

(***************************************************************************)
(* The viewer goroutine of a WebRTC offer, from the muxer's WriteHeader on. *)
(* peer is [kind, pc, http, cid, buf, inner, pck, videoStart, written,     *)
(* closed]:                                                                *)
(*   kind    "suuid": HTTPAPIServerStreamWebRTC, whose viewer goroutine    *)
(*           hands the packets to a buffering goroutine; "url":            *)
(*           HTTPAPIServerStreamWebRTC2, which writes them itself          *)
(*   pc      "answer"   the handler is about to produce and write the      *)
(*                      answer                                             *)
(*           "failed"   the handler has returned on a failure              *)
(*           "attach"   the answer is out, the goroutine is about to clAd  *)
(*           "select"   the goroutine is at its select                     *)
(*           "dropRecv" / "dropSend"  in the default branch, before the    *)
(*                      receive / the send                                 *)
(*           "done"     the goroutine has returned                         *)
(*   http    the status written (0: none)         cid  the key of clAd     *)
(*   buf     packetBuffer       inner  the buffering goroutine: "none",    *)
(*           "recv" or "gone" (returned after a failed WritePacket)        *)
(*   pck     the packet held in the default branch                         *)
(*   written the packets WritePacket has taken    closed  muxer.Close ran  *)
(* A packet is "key" or "delta"; the channel has video.                    *)
(***************************************************************************)
peerOther ==
    <<workers, served, offers, requested, target, mutex, drains, ingest, hist,
      gate, rtsp, wire, loop, restVars>>

PacketKinds == {"key", "delta"}

PeerChannel == Streams[ConfigUUID].Cl

\* (mutant of MayAttach: the goroutine is started before the answer is written)
MayAttachEarly(p) == p.pc \in {"answer", "attach"}

\* part_002 560-565: go func() follows the write of the answer
MayAttach(p) == p.pc = "attach"

\* part_002 555-564 / 666-671: WriteHeader or the write of the answer fails;
\* the handler returns
PeerAnswerFail ==
    /\ peer.pc = "answer"
    /\ peer' = [peer EXCEPT !.pc = "failed", !.http = ErrorStatus(peer.kind)]
    /\ UNCHANGED <<Streams, nextCid, produced, peerOther>>

\* part_002 555-564 / 666-692: the answer is written
PeerAnswer ==
    /\ peer.pc = "answer"
    /\ peer' = [peer EXCEPT !.pc = "attach", !.http = 200]
    /\ UNCHANGED <<Streams, nextCid, produced, peerOther>>

\* part_002 565-573 / 696-700: the goroutine starts: clAd, the deferred clDe
\* and Close, the timer, and in HTTPAPIServerStreamWebRTC the packetBuffer
\* and its goroutine
PeerAttach ==
    /\ MayAttach(peer)
    /\ nextCid' = nextCid + 1
    /\ Streams' = clAdMap(Streams, ConfigUUID, nextCid + 1)
    /\ peer' = [peer EXCEPT !.pc = "select", !.cid = nextCid + 1,
                            !.inner = IF peer.kind = "suuid" THEN "recv" ELSE "none"]
    /\ UNCHANGED <<produced, peerOther>>

\* part_001 221-229: the worker casts a packet
PeerCast ==
    /\ produced < MaxPackets
    /\ DOMAIN PeerChannel # {}
    /\ produced' = produced + 1
    /\ \E pck \in PacketKinds :
         Streams' = [Streams EXCEPT ![ConfigUUID].Cl =
                       [v \in DOMAIN @ |-> IF castRoom(@[v])
                                           THEN Append(@[v], pck)
                                           ELSE castFull(@[v], pck)]]
    /\ UNCHANGED <<nextCid, peer, peerOther>>

\* the deferred calls of the goroutine: muxerWebRTC.Close(), then clDe
PeerReturn(p) ==
    /\ peer' = [p EXCEPT !.pc = "done", !.closed = TRUE]
    /\ Streams' = clDeMap(Streams, ConfigUUID, peer.cid)

\* part_002 595-596 / 704-705: the noVideo timer fires
PeerNoVideo ==
    /\ peer.pc = "select"
    /\ PeerReturn(peer)
    /\ UNCHANGED <<nextCid, produced, peerOther>>

\* part_002 597-606: a packet from ch goes to packetBuffer when there is
\* room, else the default branch is entered
PeerTake ==
    /\ peer.pc = "select"
    /\ peer.kind = "suuid"
    /\ PeerChannel[peer.cid] # << >>
    /\ Streams' = [Streams EXCEPT ![ConfigUUID].Cl[peer.cid] = Tail(@)]
    /\ peer' = IF Len(peer.buf) < BufCap
               THEN [peer EXCEPT !.buf = Append(@, Head(PeerChannel[peer.cid]))]
               ELSE [peer EXCEPT !.pc = "dropRecv", !.pck = Head(PeerChannel[peer.cid])]
    /\ UNCHANGED <<nextCid, produced, peerOther>>

\* part_002 604: <-packetBuffer waits while the buffer is empty
PeerDropRecv ==
    /\ peer.pc = "dropRecv"
    /\ peer.buf # << >>
    /\ peer' = [peer EXCEPT !.pc = "dropSend", !.buf = Tail(@)]
    /\ UNCHANGED <<Streams, nextCid, produced, peerOther>>

\* part_002 605: packetBuffer <- pck
PeerDropSend ==
    /\ peer.pc = "dropSend"
    /\ Len(peer.buf) < BufCap
    /\ peer' = [peer EXCEPT !.pc = "select", !.buf = Append(@, peer.pck), !.pck = ""]
    /\ UNCHANGED <<Streams, nextCid, produced, peerOther>>

\* part_002 576-590: one round of the buffering goroutine: a key frame
\* resets the timer and sets videoStart; before the first key frame the
\* packet is skipped; WritePacket succeeds or fails, and a failure ends this
\* goroutine only
PeerInner ==
    /\ peer.inner = "recv"
    /\ peer.buf # << >>
    /\ LET pck == Head(peer.buf)
           start == peer.videoStart \/ pck = "key"
           took == [peer EXCEPT !.buf = Tail(@), !.videoStart = start]
       IN IF ~start
          THEN peer' = took
          ELSE \/ peer' = [took EXCEPT !.written = @ + 1]
               \/ peer' = [took EXCEPT !.inner = "gone"]
    /\ UNCHANGED <<Streams, nextCid, produced, peerOther>>

\* part_002 707-719: HTTPAPIServerStreamWebRTC2 handles the packet in the
\* select; a failed WritePacket returns
PeerTakeDirect ==
    /\ peer.pc = "select"
    /\ peer.kind = "url"
    /\ PeerChannel[peer.cid] # << >>
    /\ LET pck == Head(PeerChannel[peer.cid])
           start == peer.videoStart \/ pck = "key"
           popped == [Streams EXCEPT ![ConfigUUID].Cl[peer.cid] = Tail(@)]
       IN IF ~start
          THEN peer' = peer /\ Streams' = popped
          ELSE \/ /\ peer' = [peer EXCEPT !.videoStart = TRUE, !.written = @ + 1]
                  /\ Streams' = popped
               \/ /\ peer' = [peer EXCEPT !.videoStart = TRUE, !.pc = "done",
                                          !.closed = TRUE]
                  /\ Streams' = clDeMap(popped, ConfigUUID, peer.cid)
    /\ UNCHANGED <<nextCid, produced, peerOther>>

\* the steps of the viewer goroutine itself
PeerOuterStep ==
    \/ PeerNoVideo
    \/ PeerTake
    \/ PeerDropRecv
    \/ PeerDropSend
    \/ PeerTakeDirect

\* The handler has passed RunIFNotRun and coGe and has made the muxer.
InitPeer ==
    /\ Streams = [c \in Channels |->
                    IF c = ConfigUUID
                    THEN [ConfigStream(TRUE) EXCEPT !.RunLock = TRUE,
                                                    !.Codecs = <<H264Ready>>]
                    ELSE ZeroStream]
    /\ \E kind \in {"suuid", "url"} :
         peer = [kind |-> kind, pc |-> "answer", http |-> 0, cid |-> 0,
                 buf |-> << >>, inner |-> "none", pck |-> "",
                 videoStart |-> FALSE, written |-> 0, closed |-> FALSE]
    /\ workers = << >>
    /\ served = TRUE
    /\ offers = << >>
    /\ nextCid = 0
    /\ requested = {ConfigUUID}
    /\ target = ConfigUUID
    /\ mutex = FALSE
    /\ drains = << >>
    /\ ingest = [pc |-> "idle"]
    /\ produced = 0
    /\ hist = << >>
    /\ gate = [pc |-> "idle"]
    /\ rtsp = NoRtsp
    /\ wire = NoWire
    /\ loop = NoLoop
    /\ locks = NoLocks
    /\ reg = NoReg
    /\ out = NoOut

NextPeer ==
    \/ PeerAnswerFail
    \/ PeerAnswer
    \/ PeerAttach
    \/ PeerCast
    \/ PeerOuterStep
    \/ PeerInner

SpecPeer == InitPeer /\ [][NextPeer]_vars

(***************************************************************************)
(* Properties of the WebRTC viewer goroutine.                              *)
(***************************************************************************)
\* C25: the answer is written to the HTTP response before the viewer is
\* registered on the channel and before any packet is written to the muxer;
\* a handler that fails to produce or write the answer registers no viewer.
C25_AnswerBeforeMedia ==
    [][/\ (peer.cid = 0 /\ peer'.cid # 0) => peer.http = 200
       /\ peer'.written > peer.written => (peer.http = 200 /\ peer.cid # 0)
       /\ DOMAIN Streams'[ConfigUUID].Cl # {} => peer.http = 200
       /\ peer'.pc = "failed" =>
             (peer'.cid = 0 /\ DOMAIN Streams'[ConfigUUID].Cl = {})]_vars

C25_Witness ==
    /\ peer # NoPeer
    /\ peer.http = 200
    /\ peer.cid \in DOMAIN Streams[ConfigUUID].Cl
    /\ peer.written > 0

\* C26: the viewer goroutine never blocks forever with the viewer still
\* registered: while it has not returned, one of its own steps (the timer
\* included) is possible.
C26_ViewerLoopNeverStuck ==
    (peer # NoPeer /\ peer.pc \in {"select", "dropRecv", "dropSend"})
        => ENABLED PeerOuterStep

(***************************************************************************)
(* RTSPWorkerLoop and the status fields of its channel.                    *)
(* loop is [OnDemand, pc, err, Status, IsRunning, RunLock, ReconnectCount, *)
(* LastError, LastUpdated, ViewerCount, viewers, drains]:                  *)
(*   pc   "begin"    before UpdateStreamState(name, true)                  *)
(*        "running"  before IsRunning = true                               *)
(*        "enter"    at the top of RTSPWorker                              *)
(*        "dial"     before rtspv2.Dial                                    *)
(*        "select"   at the select of RTSPWorker                           *)
(*        "dropRecv" / "dropSend"  in its default branch                   *)
(*        "failed"   RTSPWorker has returned err                           *)
(*        "count"    after HandleStreamError                               *)
(*        "check"    at the no-viewer check                                *)
(*        "sleep"    in time.Sleep                                         *)
(*        "exit"     in the deferred function                              *)
(*        "unlock"   before RunUnlock         "done"  returned             *)
(*   err  the error of the iteration          viewers  len(Cl)             *)
(*   LastUpdated  the call that wrote the timestamp last                   *)
(*   drains  the packet goroutines started so far, the last one by the     *)
(*        current iteration: [left, pc, count] with left the packets in    *)
(*        its packetBuffer, pc "recv", "sample" (after cast) or "update"   *)
(*        (before UpdateViewerCount), count the viewer count it read.      *)
(*        packetBuffer is never closed, so a goroutine outlives its        *)
(*        iteration.                                                       *)
(***************************************************************************)
loopOther ==
    <<Streams, workers, served, offers, nextCid, requested, target, mutex,
      drains, ingest, hist, gate, rtsp, wire, peer, restVars>>

WorkerErrors == {"dial", "noViewer", "noVideo", "disconnect"}

\* part_001 316-325
UpdateStreamState(l, status) ==
    [l EXCEPT !.Status = status, !.LastUpdated = "state"]

\* (mutant of HandleStreamError: the status is left as it was)
HandleStreamErrorKeepsStatus(l, err) ==
    [l EXCEPT !.LastError = err, !.LastUpdated = "error"]

\* part_001 327-338
HandleStreamError(l, err) ==
    [l EXCEPT !.LastError = err, !.LastUpdated = "error", !.Status = FALSE]

\* part_001 340-352
UpdateViewerCount(l, count) ==
    [l EXCEPT !.ViewerCount = count, !.LastUpdated = "viewers",
              !.Status = IF count > 0 THEN TRUE ELSE @]

\* stream.go 40
LoopBegin ==
    /\ loop.pc = "begin"
    /\ loop' = [UpdateStreamState(loop, TRUE) EXCEPT !.pc = "running"]
    /\ UNCHANGED <<produced, loopOther>>

\* stream.go 42-48
LoopRunning ==
    /\ loop.pc = "running"
    /\ loop' = [loop EXCEPT !.IsRunning = TRUE, !.pc = "enter"]
    /\ UNCHANGED <<produced, loopOther>>

\* stream.go 78-88: the top of RTSPWorker
LoopEnter ==
    /\ loop.pc = "enter"
    /\ loop' = [loop EXCEPT !.Status = TRUE, !.LastUpdated = "enter", !.pc = "dial"]
    /\ UNCHANGED <<produced, loopOther>>

\* RTSPWorker returns err
LoopReturn(l, err) == [l EXCEPT !.pc = "failed", !.err = err]

\* stream.go 90-99: Dial fails
LoopDialFail ==
    /\ loop.pc = "dial"
    /\ loop.ReconnectCount < MaxIters
    /\ loop' = LoopReturn(loop, "dial")
    /\ UNCHANGED <<produced, loopOther>>

\* stream.go 90-128: Dial succeeds; packetBuffer and its goroutine
LoopDialOk ==
    /\ loop.pc = "dial"
    /\ loop' = [loop EXCEPT !.pc = "select",
                            !.drains = Append(@, [left |-> 0, pc |-> "recv", count |-> 0])]
    /\ UNCHANGED <<produced, loopOther>>

\* stream.go 132-139: clientTest, when it returns
LoopClientTest ==
    /\ loop.pc = "select"
    /\ loop.ReconnectCount < MaxIters
    /\ loop.OnDemand /\ loop.viewers = 0
    /\ loop' = LoopReturn(loop, "noViewer")
    /\ UNCHANGED <<produced, loopOther>>

\* stream.go 141-148: keyTest
LoopKeyTest ==
    /\ loop.pc = "select"
    /\ loop.ReconnectCount < MaxIters
    /\ loop' = LoopReturn([loop EXCEPT !.Status = FALSE], "noVideo")
    /\ UNCHANGED <<produced, loopOther>>

\* stream.go 154-161: SignalStreamRTPStop
LoopSignalRTPStop ==
    /\ loop.pc = "select"
    /\ loop.ReconnectCount < MaxIters
    /\ loop' = LoopReturn([loop EXCEPT !.Status = FALSE], "disconnect")
    /\ UNCHANGED <<produced, loopOther>>

\* stream.go 164-172: a packet from the upstream queue
LoopPacket ==
    /\ loop.pc = "select"
    /\ produced < MaxPackets
    /\ produced' = produced + 1
    /\ LET g == Len(loop.drains)
       IN loop' = IF loop.drains[g].left < BufCap
                  THEN [loop EXCEPT !.drains[g].left = @ + 1]
                  ELSE [loop EXCEPT !.pc = "dropRecv"]
    /\ UNCHANGED loopOther

\* stream.go 170: <-packetBuffer
LoopDropRecv ==
    /\ loop.pc = "dropRecv"
    /\ loop.drains[Len(loop.drains)].left > 0
    /\ loop' = [loop EXCEPT !.pc = "dropSend", !.drains[Len(loop.drains)].left = @ - 1]
    /\ UNCHANGED <<produced, loopOther>>

\* stream.go 171: packetBuffer <- *packetAV
LoopDropSend ==
    /\ loop.pc = "dropSend"
    /\ loop.drains[Len(loop.drains)].left < BufCap
    /\ loop' = [loop EXCEPT !.pc = "select", !.drains[Len(loop.drains)].left = @ + 1]
    /\ UNCHANGED <<produced, loopOther>>

\* stream.go 54-57: Config.LastError = err, HandleStreamError
LoopHandleError ==
    /\ loop.pc = "failed"
    /\ loop' = [HandleStreamError(loop, loop.err) EXCEPT !.pc = "count"]
    /\ UNCHANGED <<produced, loopOther>>

\* stream.go 59-67
LoopCount ==
    /\ loop.pc = "count"
    /\ loop' = [loop EXCEPT !.ReconnectCount = @ + 1, !.Status = FALSE,
                            !.pc = "check"]
    /\ UNCHANGED <<produced, loopOther>>

\* stream.go 70-73
LoopCheck ==
    /\ loop.pc = "check"
    /\ loop' = [loop EXCEPT !.pc = IF loop.OnDemand /\ loop.viewers = 0
                                   THEN "exit" ELSE "sleep"]
    /\ UNCHANGED <<produced, loopOther>>

\* stream.go 74, 52: the sleep ends, the next RTSPWorker call
LoopSleep ==
    /\ loop.pc = "sleep"
    /\ loop' = [loop EXCEPT !.pc = "enter", !.err = ""]
    /\ UNCHANGED <<produced, loopOther>>

\* stream.go 28-36: the deferred function, under the mutex
LoopExit ==
    /\ loop.pc = "exit"
    /\ loop' = [loop EXCEPT !.IsRunning = FALSE, !.Status = FALSE, !.pc = "unlock"]
    /\ UNCHANGED <<produced, loopOther>>

\* stream.go 37, part_001 171-180
LoopUnlock ==
    /\ loop.pc = "unlock"
    /\ loop' = [loop EXCEPT !.RunLock = IF loop.OnDemand THEN FALSE ELSE @,
                            !.pc = "done"]
    /\ UNCHANGED <<produced, loopOther>>

\* stream.go 116-120: the packet goroutine takes a packet and casts it
LoopDrainRecv(g) ==
    /\ loop.drains[g].pc = "recv"
    /\ loop.drains[g].left > 0
    /\ loop' = [loop EXCEPT !.drains[g].left = @ - 1, !.drains[g].pc = "sample"]
    /\ UNCHANGED <<produced, loopOther>>

\* stream.go 123-125: it reads len(Cl) under RLock
LoopDrainSample(g) ==
    /\ loop.drains[g].pc = "sample"
    /\ loop' = [loop EXCEPT !.drains[g].count = loop.viewers, !.drains[g].pc = "update"]
    /\ UNCHANGED <<produced, loopOther>>

\* stream.go 126
LoopDrainUpdate(g) ==
    /\ loop.drains[g].pc = "update"
    /\ loop' = [UpdateViewerCount(loop, loop.drains[g].count)
                  EXCEPT !.drains[g].pc = "recv", !.drains[g].count = 0]
    /\ UNCHANGED <<produced, loopOther>>

\* clAd: a viewer attaches to the channel
LoopViewerJoin ==
    /\ loop.pc # "none"
    /\ loop.viewers < MaxViewers
    /\ loop' = [loop EXCEPT !.viewers = @ + 1]
    /\ UNCHANGED <<produced, loopOther>>

\* clDe: a viewer leaves
LoopViewerLeave ==
    /\ loop.pc # "none"
    /\ loop.viewers > 0
    /\ loop' = [loop EXCEPT !.viewers = @ - 1]
    /\ UNCHANGED <<produced, loopOther>>

\* the steps of the RTSPWorkerLoop goroutine
LoopWorkerStep ==
    \/ LoopBegin
    \/ LoopRunning
    \/ LoopEnter
    \/ LoopDialFail
    \/ LoopDialOk
    \/ LoopClientTest
    \/ LoopKeyTest
    \/ LoopSignalRTPStop
    \/ LoopPacket
    \/ LoopDropRecv
    \/ LoopDropSend
    \/ LoopHandleError
    \/ LoopCount
    \/ LoopCheck
    \/ LoopSleep
    \/ LoopExit
    \/ LoopUnlock

\* serveStreams has started the loop of an always-on channel, or
\* RunIFNotRun has set RunLock and started the loop of an on-demand one.
InitLoop ==
    /\ \E onDemand \in BOOLEAN :
         loop = [OnDemand |-> onDemand, pc |-> "begin", err |-> "",
                 Status |-> FALSE, IsRunning |-> FALSE, RunLock |-> onDemand,
                 ReconnectCount |-> 0, LastError |-> "", LastUpdated |-> "",
                 ViewerCount |-> 0, viewers |-> 0, drains |-> << >>]
    /\ Streams = [c \in Channels |-> ZeroStream]
    /\ workers = << >>
    /\ served = TRUE
    /\ offers = << >>
    /\ nextCid = 0
    /\ requested = {}
    /\ target = ConfigUUID
    /\ mutex = FALSE
    /\ drains = << >>
    /\ ingest = [pc |-> "idle"]
    /\ produced = 0
    /\ hist = << >>
    /\ gate = [pc |-> "idle"]
    /\ rtsp = NoRtsp
    /\ wire = NoWire
    /\ peer = NoPeer
    /\ locks = NoLocks
    /\ reg = NoReg
    /\ out = NoOut

NextLoop ==
    \/ LoopWorkerStep
    \/ \E g \in DOMAIN loop.drains : LoopDrainRecv(g) \/ LoopDrainSample(g) \/ LoopDrainUpdate(g)
    \/ LoopViewerJoin
    \/ LoopViewerLeave

SpecLoop == InitLoop /\ [][NextLoop]_vars

(***************************************************************************)
(* Properties of the worker loop's status fields.                          *)
(***************************************************************************)
\* C27: when an iteration of an always-on channel's worker fails, the status
\* becomes false and the error and a timestamp are recorded, then the
\* reconnect counter goes up by exactly one with the status false, and the
\* worker goes on to a new connection attempt; it never terminates.
C27_FailureRecordedAndRetried ==
    /\ [][~loop.OnDemand =>
            /\ (loop.pc = "failed" /\ loop'.pc # "failed") =>
                  /\ loop'.Status = FALSE
                  /\ loop'.LastError = loop.err /\ loop.err \in WorkerErrors
                  /\ loop'.LastUpdated = "error"
                  /\ loop'.ReconnectCount = loop.ReconnectCount
                  /\ loop'.pc = "count"
            /\ (loop.pc = "count" /\ loop'.pc # "count") =>
                  /\ loop'.Status = FALSE
                  /\ loop'.LastError = loop.err
                  /\ loop'.ReconnectCount = loop.ReconnectCount + 1
                  /\ loop'.pc = "check"
            /\ (loop.pc = "check" /\ loop'.pc # "check") => loop'.pc = "sleep"
            /\ (loop.pc = "sleep" /\ loop'.pc # "sleep") => loop'.pc = "enter"
            /\ (loop.pc \notin {"failed", "count"}) =>
                  loop'.ReconnectCount = loop.ReconnectCount]_vars
    /\ [](~loop.OnDemand =>
            /\ loop.pc \notin {"exit", "unlock", "done"}
            /\ loop.pc \in {"failed", "count", "check", "sleep", "enter"}
                  => ENABLED LoopWorkerStep)

C27_Witness ==
    /\ loop.pc = "dial"
    /\ ~loop.OnDemand
    /\ loop.ReconnectCount > 0
    /\ loop.LastError \in WorkerErrors

\* C30: after RTSPWorkerLoop has returned the channel has IsRunning = false,
\* Status = false and RunLock = false, and stays so: no goroutine left over
\* from the worker sets Status back to true.
C30_ExitLeavesStatusFalse ==
    (loop # NoLoop /\ loop.pc = "done") =>
        (~loop.IsRunning /\ ~loop.Status /\ ~loop.RunLock)

\* C31: the stop of an on-demand worker for lack of viewers is not a
\* failure: handling it leaves LastError and the reconnect counter as they
\* were.
C31_NoViewerNotAFailure ==
    [][(loop.pc \in {"failed", "count"} /\ loop.err = "noViewer") =>
          /\ loop'.LastError = loop.LastError
          /\ loop'.ReconnectCount = loop.ReconnectCount]_vars

\* C35: a session record is made by SETUP only: a request of another method
\* makes none, and none comes back under the connection's id after TEARDOWN.
C35_SessionOnlyBySetup ==
    [][\A c \in Conns :
          (~wire.conns[c].session /\ wire'.conns[c].session)
             => (wire'.last.conn = c /\ wire'.last.req.method = "SETUP")]_vars

(***************************************************************************)
(* The channels with their status fields, the re-sync of the channel set   *)
(* and the status projections.                                             *)
(* reg is [Streams, LastError, defaults, pc, err, syncs, report]:          *)
(*   Streams    Config.Streams: uuid -> StreamST with the fields below     *)
(*   LastError  Config.LastError, the one field of the whole Registry      *)
(*   defaults   Config.StreamDefaults                                      *)
(*   pc, err    per uuid, the worker of that channel: "idle" (none),       *)
(*              "begin", "running", "run", "failed" (RTSPWorker returned   *)
(*              err), "record" (Config.LastError is set), "count" (after   *)
(*              HandleStreamError)                                         *)
(*   syncs      re-syncs done so far                                       *)
(*   report     the last status projection: [by, uuid, LastError]          *)
(* A viewer set is [made, ids]: made is false for the nil map; an error is *)
(* "" (nil) or its text.                                                  *)
(***************************************************************************)
regOther ==
    <<Streams, workers, served, offers, nextCid, requested, target, mutex,
      drains, ingest, produced, hist, gate, rtsp, wire, loop, peer, locks, out>>

\* the uuids of the configuration file, and one the API adds later
RegUUIDs == {"camA", "camB"}
SyncUUIDs == {"camA", "camB", "camC"}

\* resyncs in one run
MaxSyncs == 1
\* failed iterations of one channel's worker in one run
MaxFails == 1

\* the lists loadStreamsFromAPI returns: a channel dropped, one added, both
SyncLists == {{"camA"}, {"camA", "camB", "camC"}, {"camB", "camC"}}

\* Config.StreamDefaults of the configuration file
RegDefaults == [OnDemand |-> FALSE, DisableAudio |-> FALSE, Debug |-> TRUE]

\* the error a worker of the channel records
RegErrors(uuid) == {uuid \o ":dial"}

\* the nil map and make(map[string]viewer)
NilMap == [made |-> FALSE, ids |-> {}]
MadeMap == [made |-> TRUE, ids |-> {}]

\* a StreamST as json.Unmarshal leaves it
LoadedStream(url) ==
    [URL |-> url, Status |-> FALSE, OnDemand |-> FALSE, DisableAudio |-> FALSE,
     Debug |-> FALSE, RunLock |-> FALSE, Cl |-> NilMap, Codecs |-> NilCodecs,
     IsRunning |-> FALSE, LastError |-> "", LastUpdated |-> "",
     ViewerCount |-> 0, ReconnectCount |-> 0]

\* part_001 94-107: loadConfig applies the defaults and makes Cl
ConfiguredStream(onDemand) ==
    [LoadedStream("old") EXCEPT !.OnDemand = onDemand \/ RegDefaults.OnDemand,
                                !.DisableAudio = RegDefaults.DisableAudio,
                                !.Debug = RegDefaults.Debug,
                                !.Cl = MadeMap]

RegOk(uuid) == uuid \in DOMAIN reg.Streams

\* the guarded read-modify-write of a channel entry, under the mutex
RegUpdate(uuid, st) ==
    IF RegOk(uuid) THEN [reg.Streams EXCEPT ![uuid] = st] ELSE reg.Streams

RegAt(uuid, pc) == reg.pc[uuid] = pc

\* part_001 159-169: RunIFNotRun sets RunLock and starts RTSPWorkerLoop
RegRunIFNotRun(uuid) ==
    /\ uuid \in RegUUIDs
    /\ RegOk(uuid)
    /\ reg.Streams[uuid].OnDemand /\ ~reg.Streams[uuid].RunLock
    /\ RegAt(uuid, "idle")
    /\ reg' = [reg EXCEPT !.Streams[uuid].RunLock = TRUE, !.pc[uuid] = "begin"]
    /\ UNCHANGED regOther

\* stream.go 40: UpdateStreamState(name, true)
RegBegin(uuid) ==
    /\ RegAt(uuid, "begin")
    /\ reg' = [reg EXCEPT
                 !.Streams = RegUpdate(uuid, UpdateStreamState(reg.Streams[uuid], TRUE)),
                 !.pc[uuid] = "running"]
    /\ UNCHANGED regOther

\* stream.go 42-48, 78-104: IsRunning = true; RTSPWorker sets Status and
\* LastUpdated, dials and calls coAd
RegRunning(uuid) ==
    /\ RegAt(uuid, "running")
    /\ reg' = [reg EXCEPT
                 !.Streams = RegUpdate(uuid, [reg.Streams[uuid] EXCEPT
                                                !.IsRunning = TRUE, !.Status = TRUE,
                                                !.LastUpdated = "enter",
                                                !.Codecs = <<H264Ready>>]),
                 !.pc[uuid] = "run"]
    /\ UNCHANGED regOther

\* stream.go 90-99, 141-161: RTSPWorker returns an error
RegReturn(uuid) ==
    /\ RegAt(uuid, "run")
    /\ RegOk(uuid) => reg.Streams[uuid].ReconnectCount < MaxFails
    /\ \E err \in RegErrors(uuid) :
         reg' = [reg EXCEPT !.pc[uuid] = "failed", !.err[uuid] = err]
    /\ UNCHANGED regOther

\* stream.go 56: Config.LastError = err
RegLastError(uuid) ==
    /\ RegAt(uuid, "failed")
    /\ reg' = [reg EXCEPT !.LastError = reg.err[uuid], !.pc[uuid] = "record"]
    /\ UNCHANGED regOther

\* stream.go 57: HandleStreamError
RegHandleError(uuid) ==
    /\ RegAt(uuid, "record")
    /\ reg' = [reg EXCEPT
                 !.Streams = RegUpdate(uuid, HandleStreamError(reg.Streams[uuid],
                                                               reg.err[uuid])),
                 !.pc[uuid] = "count"]
    /\ UNCHANGED regOther

\* stream.go 59-74: ReconnectCount++, Status = false; the channels of this
\* specification keep a viewer or are always-on, so the loop goes on
RegCount(uuid) ==
    /\ RegAt(uuid, "count")
    /\ reg' = [reg EXCEPT
                 !.Streams = RegUpdate(uuid, [reg.Streams[uuid] EXCEPT
                                                !.ReconnectCount = @ + 1,
                                                !.Status = FALSE]),
                 !.pc[uuid] = "running", !.err[uuid] = ""]
    /\ UNCHANGED regOther

\* part_001 277-284: clAd
RegClAd(uuid) ==
    /\ RegOk(uuid)
    /\ reg.Streams[uuid].Cl = MadeMap
    /\ reg' = [reg EXCEPT !.Streams[uuid].Cl.ids = {1}]
    /\ UNCHANGED regOther

\* stream.go 123-126: the packet goroutine reads len(Cl) and calls
\* UpdateViewerCount
RegViewerCount(uuid) ==
    /\ RegAt(uuid, "run")
    /\ RegOk(uuid)
    /\ reg.Streams[uuid].ViewerCount # Cardinality(reg.Streams[uuid].Cl.ids)
    /\ reg' = [reg EXCEPT !.Streams[uuid] =
                 UpdateViewerCount(@, Cardinality(reg.Streams[uuid].Cl.ids))]
    /\ UNCHANGED regOther

\* (mutant of SyncStream: the reconnect count is not carried over)
SyncStreamForgetsCount(new, exists, old, defaults) ==
    IF exists
    THEN [new EXCEPT !.Status = old.Status, !.OnDemand = old.OnDemand,
                     !.DisableAudio = old.DisableAudio, !.Debug = old.Debug,
                     !.RunLock = old.RunLock, !.Cl = old.Cl, !.Codecs = old.Codecs,
                     !.IsRunning = old.IsRunning, !.LastError = old.LastError,
                     !.LastUpdated = old.LastUpdated,
                     !.ViewerCount = old.ViewerCount]
    ELSE [new EXCEPT !.OnDemand = defaults.OnDemand,
                     !.DisableAudio = defaults.DisableAudio,
                     !.Debug = defaults.Debug, !.Cl = MadeMap]

\* main.go 163-185: the body of the range over the loaded streams
SyncStream(new, exists, old, defaults) ==
    IF exists
    THEN [new EXCEPT !.Status = old.Status, !.OnDemand = old.OnDemand,
                     !.DisableAudio = old.DisableAudio, !.Debug = old.Debug,
                     !.RunLock = old.RunLock, !.Cl = old.Cl, !.Codecs = old.Codecs,
                     !.IsRunning = old.IsRunning, !.LastError = old.LastError,
                     !.LastUpdated = old.LastUpdated,
                     !.ViewerCount = old.ViewerCount,
                     !.ReconnectCount = old.ReconnectCount]
    ELSE [new EXCEPT !.OnDemand = defaults.OnDemand,
                     !.DisableAudio = defaults.DisableAudio,
                     !.Debug = defaults.Debug, !.Cl = MadeMap]

\* main.go 159-187: one tick of updateStreamsPeriodically that loaded a
\* non-empty list: the new map replaces Config.Streams under the write lock
updateStreamsPeriodically ==
    /\ reg.syncs < MaxSyncs
    /\ \E ids \in SyncLists :
         reg' = [reg EXCEPT
                   !.syncs = @ + 1,
                   !.Streams = [id \in ids |->
                                  SyncStream(LoadedStream("new"), RegOk(id),
                                             IF RegOk(id) THEN reg.Streams[id]
                                             ELSE LoadedStream(""),
                                             reg.defaults)]]
    /\ UNCHANGED regOther

\* part_002 872-930: getStreamStatus reports element.LastError
getStreamStatus(uuid) ==
    /\ uuid \in SyncUUIDs
    /\ reg' = [reg EXCEPT !.report = [by |-> "getStreamStatus", uuid |-> uuid,
                                      LastError |-> reg.LastError]]
    /\ UNCHANGED regOther

\* status.go 85-125: HandleSingleStreamStatus reports stream.LastError
HandleSingleStreamStatus(uuid) ==
    /\ RegOk(uuid)
    /\ reg' = [reg EXCEPT !.report = [by |-> "HandleSingleStreamStatus",
                                      uuid |-> uuid,
                                      LastError |-> reg.Streams[uuid].LastError]]
    /\ UNCHANGED regOther

NoReport == [by |-> "", uuid |-> "", LastError |-> ""]

\* loadConfig has read camA (always-on) and camB (on-demand), serveStreams
\* has started the worker of camA, a viewer request has yet to come.
InitReg ==
    /\ reg = [Streams |-> [u \in RegUUIDs |-> ConfiguredStream(u = "camB")],
                LastError |-> "",
                defaults |-> RegDefaults,
                pc |-> [u \in SyncUUIDs |-> IF u = "camA" THEN "begin" ELSE "idle"],
                err |-> [u \in SyncUUIDs |-> ""],
                syncs |-> 0,
                report |-> NoReport]
    /\ Streams = [c \in Channels |-> ZeroStream]
    /\ workers = << >>
    /\ served = TRUE
    /\ offers = << >>
    /\ nextCid = 0
    /\ requested = {}
    /\ target = ConfigUUID
    /\ mutex = FALSE
    /\ drains = << >>
    /\ ingest = [pc |-> "idle"]
    /\ produced = 0
    /\ hist = << >>
    /\ gate = [pc |-> "idle"]
    /\ rtsp = NoRtsp
    /\ wire = NoWire
    /\ loop = NoLoop
    /\ peer = NoPeer
    /\ locks = NoLocks
    /\ out = NoOut

\* the workers and the viewers
RegStep ==
    \E uuid \in SyncUUIDs :
       \/ RegRunIFNotRun(uuid)
       \/ RegBegin(uuid)
       \/ RegRunning(uuid)
       \/ RegReturn(uuid)
       \/ RegLastError(uuid)
       \/ RegHandleError(uuid)
       \/ RegCount(uuid)
       \/ RegClAd(uuid)
       \/ RegViewerCount(uuid)

NextReg ==
    \/ RegStep
    \/ updateStreamsPeriodically

SpecReg == InitReg /\ [][NextReg]_vars

NextStatus ==
    \/ RegStep
    \/ \E uuid \in RegUUIDs : getStreamStatus(uuid) \/ HandleSingleStreamStatus(uuid)

SpecStatus == InitReg /\ [][NextStatus]_vars

(***************************************************************************)
(* Properties of the re-sync and of the status projections.                *)
(***************************************************************************)
Kept(old, new) ==
    /\ new.RunLock = old.RunLock
    /\ new.IsRunning = old.IsRunning
    /\ new.Status = old.Status
    /\ new.Codecs = old.Codecs
    /\ new.Cl = old.Cl
    /\ new.LastError = old.LastError
    /\ new.LastUpdated = old.LastUpdated
    /\ new.ViewerCount = old.ViewerCount
    /\ new.ReconnectCount = old.ReconnectCount

\* C34: a re-sync keeps, for every uuid present before and after, the
\* run-lock, running flag, status, codecs, viewer set, last error,
\* last-updated time, viewer count and reconnect count; it is one step with
\* respect to the other Registry operations; a new uuid starts with an empty,
\* non-nil viewer set and the global defaults.
C34_ResyncPreservesLiveState ==
    [][reg'.syncs # reg.syncs =>
         /\ \A id \in DOMAIN reg'.Streams :
               IF id \in DOMAIN reg.Streams
               THEN Kept(reg.Streams[id], reg'.Streams[id])
               ELSE /\ reg'.Streams[id].Cl = [made |-> TRUE, ids |-> {}]
                    /\ reg'.Streams[id].OnDemand = reg.defaults.OnDemand
                    /\ reg'.Streams[id].DisableAudio = reg.defaults.DisableAudio
                    /\ reg'.Streams[id].Debug = reg.defaults.Debug
         /\ reg'.pc = reg.pc
         /\ reg'.LastError = reg.LastError]_vars

C34_Witness ==
    /\ reg # NoReg
    /\ reg.syncs > 0
    /\ {"camA", "camC"} \subseteq DOMAIN reg.Streams
    /\ reg.Streams["camA"].URL = "new"
    /\ reg.Streams["camA"].ReconnectCount > 0
    /\ reg.Streams["camA"].Cl.ids # {}
    /\ reg.Streams["camC"].Cl.made

\* C36: the status projection of a channel reports that channel's own last
\* error: a channel whose worker has had no failure is reported with none.
C36_OwnLastError ==
    (reg # NoReg /\ reg.report.uuid \in DOMAIN reg.Streams)
        => ((/\ reg.Streams[reg.report.uuid].LastError = ""
             /\ reg.err[reg.report.uuid] = "")
               => reg.report.LastError = "")

(***************************************************************************)
(* Config.mutex and the goroutines that use the channel map.               *)
(* locks is [pc, readers, writer, pending, queue, casts]:                  *)
(*   pc       per goroutine, its position (below)                          *)
(*   readers  per goroutine, the read locks it holds                       *)
(*   writer   the goroutine holding the write lock, or ""                  *)
(*   pending  the goroutine whose Lock call has announced itself and waits *)
(*            for the readers to leave; sync.RWMutex lets no new reader in *)
(*            from then on                                                 *)
(*   queue    the length of the viewer's queue     casts  cast calls made  *)
(* The goroutines:                                                         *)
(*   "info"   HandleRTSPStreamInfo: "start", "scan" (RLock held, ranging   *)
(*            over Config.Streams), "rlock2" (at the RLock of              *)
(*            GetRTSPURLForAPI), "scan2", "encode" (writing the response), *)
(*            "done"                                                       *)
(*   "cast"   the packet goroutine in cast: "lock", "pending", "range",    *)
(*            "send", "unlock", "done"                                     *)
(*   "adhoc"  HTTPAPIServerStreamWebRTC2: "check", "insert", "lock",       *)
(*            "pending", "held" (in RunIFNotRun), "done"                   *)
(*   "serve"  serveStreams: "range" (at the first entry), "next" (the      *)
(*            worker of the first entry is started, the range goes on),    *)
(*            "done"                                                       *)
(*   "worker" RTSPWorkerLoop: "idle", "lock", "pending", "held"            *)
(*            (UpdateStreamState), "run", "lasterr" (Config.LastError =    *)
(*            err), "lock2", "pending2", "held2" (HandleStreamError),      *)
(*            "done"                                                       *)
(*   "status" getStreamStatus: "start", "read", "done"                     *)
(***************************************************************************)
lockOther ==
    <<Streams, workers, served, offers, nextCid, requested, target, mutex,
      drains, ingest, produced, hist, gate, rtsp, wire, loop, peer, reg, out>>

Goroutines == {"info", "cast", "adhoc", "serve", "worker", "status"}

LockAt(g, pc) == locks.pc[g] = pc

\* sync.RWMutex.RLock returns when no writer holds or has announced
RLock(g, from, to) ==
    /\ LockAt(g, from)
    /\ locks.writer = "" /\ locks.pending = ""
    /\ locks' = [locks EXCEPT !.pc[g] = to, !.readers[g] = @ + 1]
    /\ UNCHANGED lockOther

RUnlock(g, from, to) ==
    /\ LockAt(g, from)
    /\ locks' = [locks EXCEPT !.pc[g] = to, !.readers[g] = @ - 1]
    /\ UNCHANGED lockOther

\* sync.RWMutex.Lock: the caller passes the writers' mutex and announces
\* itself to the readers ...
LockCall(g, from, to) ==
    /\ LockAt(g, from)
    /\ locks.writer = "" /\ locks.pending = ""
    /\ locks' = [locks EXCEPT !.pc[g] = to, !.pending = g]
    /\ UNCHANGED lockOther

\* ... and returns when the readers that were in have left
LockTake(g, from, to) ==
    /\ LockAt(g, from)
    /\ locks.pending = g
    /\ \A h \in Goroutines : locks.readers[h] = 0
    /\ locks' = [locks EXCEPT !.pc[g] = to, !.pending = "", !.writer = g]
    /\ UNCHANGED lockOther

Unlock(g, from, to) ==
    /\ LockAt(g, from)
    /\ locks' = [locks EXCEPT !.pc[g] = to, !.writer = ""]
    /\ UNCHANGED lockOther

LockGoto(g, from, to) ==
    /\ LockAt(g, from)
    /\ locks' = [locks EXCEPT !.pc[g] = to]
    /\ UNCHANGED lockOther

\* rtsp_api.go 48-92 with GetRTSPURLForAPI 17-46
InfoStep ==
    \/ RLock("info", "start", "scan")
    \/ LockGoto("info", "scan", "rlock2")
    \/ RLock("info", "rlock2", "scan2")
    \/ RUnlock("info", "scan2", "encode")
    \/ RUnlock("info", "encode", "done")

\* part_001 221-229, called once per packet by the packet goroutine
CastStep ==
    \/ LockCall("cast", "lock", "pending")
    \/ LockTake("cast", "pending", "range")
    \/ /\ castRoom([i \in 1..locks.queue |-> 0])
       /\ LockGoto("cast", "range", "send")
    \/ /\ ~castRoom([i \in 1..locks.queue |-> 0])
       /\ LockGoto("cast", "range", "unlock")
    \/ /\ LockAt("cast", "send")
       /\ locks.queue < QueueCap
       /\ locks' = [locks EXCEPT !.pc["cast"] = "unlock", !.queue = @ + 1]
       /\ UNCHANGED lockOther
    \/ /\ LockAt("cast", "unlock")
       /\ locks' = [locks EXCEPT !.writer = "", !.casts = @ + 1,
                                 !.pc["cast"] = IF locks.casts + 1 < MaxPackets
                                                THEN "lock" ELSE "done"]
       /\ UNCHANGED lockOther

\* the viewer takes a packet from its queue
LockViewerRecv ==
    /\ locks.queue > 0
    /\ locks' = [locks EXCEPT !.queue = @ - 1]
    /\ UNCHANGED lockOther

\* part_002 638-648: the test and the insert with no lock, then RunIFNotRun
AdhocStep ==
    \/ LockGoto("adhoc", "check", "insert")
    \/ LockGoto("adhoc", "insert", "lock")
    \/ LockCall("adhoc", "lock", "pending")
    \/ LockTake("adhoc", "pending", "held")
    \/ Unlock("adhoc", "held", "done")

\* stream.go 19-26: the range with no lock; the worker of an always-on entry
\* is started inside it
ServeStep ==
    \/ /\ LockAt("serve", "range")
       /\ locks' = [locks EXCEPT !.pc["serve"] = "next", !.pc["worker"] = "lock"]
       /\ UNCHANGED lockOther
    \/ LockGoto("serve", "next", "done")

\* stream.go 27-67: UpdateStreamState, an iteration that fails,
\* Config.LastError = err with no lock, HandleStreamError
WorkerLockStep ==
    \/ LockCall("worker", "lock", "pending")
    \/ LockTake("worker", "pending", "held")
    \/ Unlock("worker", "held", "run")
    \/ LockGoto("worker", "run", "lasterr")
    \/ LockGoto("worker", "lasterr", "lock2")
    \/ LockCall("worker", "lock2", "pending2")
    \/ LockTake("worker", "pending2", "held2")
    \/ Unlock("worker", "held2", "done")

\* part_002 872-930
StatusStep ==
    \/ RLock("status", "start", "read")
    \/ RUnlock("status", "read", "done")

\* what a goroutine at its position reads or writes: [obj, write]
Access(g) ==
    LET pc == locks.pc[g]
    IN CASE g = "info" /\ pc \in {"scan", "scan2"} ->
              {[obj |-> "Streams", write |-> FALSE]}
         [] g = "cast" /\ pc \in {"range", "send"} ->
              {[obj |-> "Streams", write |-> FALSE]}
         [] g = "adhoc" /\ pc = "check" -> {[obj |-> "Streams", write |-> FALSE]}
         [] g = "adhoc" /\ pc \in {"insert", "held"} ->
              {[obj |-> "Streams", write |-> TRUE]}
         [] g = "serve" /\ pc \in {"range", "next"} ->
              {[obj |-> "Streams", write |-> FALSE]}
         [] g = "worker" /\ pc \in {"held", "held2"} ->
              {[obj |-> "Streams", write |-> TRUE]}
         [] g = "worker" /\ pc = "lasterr" -> {[obj |-> "LastError", write |-> TRUE]}
         [] g = "status" /\ pc = "read" ->
              {[obj |-> "Streams", write |-> FALSE],
               [obj |-> "LastError", write |-> FALSE]}
         [] OTHER -> {}

\* the lock a goroutine holds
Holds(g) ==
    IF locks.writer = g THEN "w"
    ELSE IF locks.readers[g] > 0 THEN "r"
    ELSE "none"

\* the goroutine is at an operation that can suspend it: a channel send to a
\* full queue, or a write to the network
CanBlock(g) ==
    \/ g = "cast" /\ locks.pc[g] = "send" /\ locks.queue >= QueueCap
    \/ g = "info" /\ locks.pc[g] = "encode"

\* main has loaded the configuration and is about to call serveStreams; the
\* HTTP server is up.
InitLock ==
    /\ locks = [pc |-> [g \in Goroutines |->
                          CASE g = "info" -> "start"
                            [] g = "cast" -> "lock"
                            [] g = "adhoc" -> "check"
                            [] g = "serve" -> "range"
                            [] g = "worker" -> "idle"
                            [] g = "status" -> "start"],
                readers |-> [g \in Goroutines |-> 0],
                writer |-> "", pending |-> "", queue |-> 0, casts |-> 0]
    /\ Streams = [c \in Channels |-> ZeroStream]
    /\ workers = << >>
    /\ served = FALSE
    /\ offers = << >>
    /\ nextCid = 0
    /\ requested = {}
    /\ target = ConfigUUID
    /\ mutex = FALSE
    /\ drains = << >>
    /\ ingest = [pc |-> "idle"]
    /\ produced = 0
    /\ hist = << >>
    /\ gate = [pc |-> "idle"]
    /\ rtsp = NoRtsp
    /\ wire = NoWire
    /\ loop = NoLoop
    /\ peer = NoPeer
    /\ reg = NoReg
    /\ out = NoOut

NextLock ==
    \/ InfoStep
    \/ CastStep
    \/ LockViewerRecv
    \/ AdhocStep
    \/ ServeStep
    \/ WorkerLockStep
    \/ StatusStep

SpecLock == InitLock /\ [][NextLock]_vars

(***************************************************************************)
(* Properties of the locking.                                              *)
(***************************************************************************)
\* C32: no two goroutines access the channel map or the last-error field at
\* the same time with one of them writing and one of them holding no lock.
C32_NoUnlockedConflict ==
    \A g, h \in Goroutines :
       \A a \in Access(g), b \in Access(h) :
          (g # h /\ a.obj = b.obj /\ (a.write \/ b.write))
             => (Holds(g) # "none" /\ Holds(h) # "none")

\* C33: no goroutine holds the Registry lock at an operation that can block.
C33_NoBlockingUnderLock ==
    \A g \in Goroutines : Holds(g) # "none" => ~CanBlock(g)

\* C40: HandleRTSPStreamInfo always completes: while it waits for its second
\* read lock, it or one of the goroutines using the lock can take a step.
C40_InfoCompletes ==
    (locks # NoLocks /\ locks.pc["info"] = "rlock2")
        => ENABLED (InfoStep \/ CastStep \/ AdhocStep \/ WorkerLockStep \/ StatusStep)

(***************************************************************************)
(* The bytes of one RTSP connection.  conn.Write is called by the request  *)
(* loop of handleConnection and by every streamToClient goroutine a PLAY   *)
(* on the connection has started; each call puts its bytes on the wire in  *)
(* one piece.                                                              *)
(* out is [log, pc, queue, n]: log the pieces written so far, each [by,    *)
(* kind] with by 0 for the request loop and p for the goroutine of the     *)
(* p-th PLAY, kind "response", "header" or "payload"; pc[p] "recv" or      *)
(* "payload" (the header is out); queue[p] the packets waiting in ch; n    *)
(* the requests handled.                                                   *)
(***************************************************************************)
outOther ==
    <<Streams, workers, served, offers, nextCid, requested, target, mutex,
      drains, ingest, hist, gate, rtsp, wire, loop, peer, locks, reg>>

OutPlayers == DOMAIN out.pc

\* rtsp_server.go 271-285: handlePlay writes its response, then clAd and
\* go streamToClient
OutPlay ==
    /\ out.n < MaxRequests
    /\ Len(out.pc) < MaxCastViewers
    /\ out' = [out EXCEPT !.n = @ + 1,
                          !.log = Append(@, [by |-> 0, kind |-> "response"]),
                          !.pc = Append(@, "recv"),
                          !.queue = Append(@, 0)]
    /\ UNCHANGED <<produced, outOther>>

\* rtsp_server.go 79-169, 187-269, 287-294: a request of another method is
\* answered
OutRequest ==
    /\ out.n < MaxRequests
    /\ out' = [out EXCEPT !.n = @ + 1,
                          !.log = Append(@, [by |-> 0, kind |-> "response"])]
    /\ UNCHANGED <<produced, outOther>>

\* part_001 221-229: cast puts a packet in every queue with room
OutCast ==
    /\ produced < MaxPackets
    /\ OutPlayers # {}
    /\ produced' = produced + 1
    /\ out' = [out EXCEPT !.queue = [p \in OutPlayers |->
                                       IF out.queue[p] < QueueCap
                                       THEN out.queue[p] + 1 ELSE out.queue[p]]]
    /\ UNCHANGED outOther

\* rtsp_server.go 299-306: a packet from ch, conn.Write(header)
OutHeader(p) ==
    /\ out.pc[p] = "recv"
    /\ out.queue[p] > 0
    /\ out' = [out EXCEPT !.queue[p] = @ - 1, !.pc[p] = "payload",
                          !.log = Append(@, [by |-> p, kind |-> "header"])]
    /\ UNCHANGED <<produced, outOther>>

\* rtsp_server.go 307: conn.Write(pkt.Data)
OutPayload(p) ==
    /\ out.pc[p] = "payload"
    /\ out' = [out EXCEPT !.pc[p] = "recv",
                          !.log = Append(@, [by |-> p, kind |-> "payload"])]
    /\ UNCHANGED <<produced, outOther>>

\* a connection has been accepted
InitOut ==
    /\ out = [log |-> << >>, pc |-> << >>, queue |-> << >>, n |-> 0]
    /\ Streams = [c \in Channels |-> ZeroStream]
    /\ workers = << >>
    /\ served = TRUE
    /\ offers = << >>
    /\ nextCid = 0
    /\ requested = {}
    /\ target = ConfigUUID
    /\ mutex = FALSE
    /\ drains = << >>
    /\ ingest = [pc |-> "idle"]
    /\ produced = 0
    /\ hist = << >>
    /\ gate = [pc |-> "idle"]
    /\ rtsp = NoRtsp
    /\ wire = NoWire
    /\ loop = NoLoop
    /\ peer = NoPeer
    /\ locks = NoLocks
    /\ reg = NoReg

NextOut ==
    \/ OutPlay
    \/ OutRequest
    \/ OutCast
    \/ \E p \in OutPlayers : OutHeader(p) \/ OutPayload(p)

SpecOut == InitOut /\ [][NextOut]_vars

\* C39: the header and the payload of an interleaved frame are contiguous on
\* the wire: what follows a header is the payload of the same goroutine.
C39_FrameContiguous ==
    out # NoOut =>
       \A i \in DOMAIN out.log :
          (out.log[i].kind = "header" /\ i < Len(out.log))
             => (out.log[i + 1].kind = "payload"
                 /\ out.log[i + 1].by = out.log[i].by)

=============================================================================
